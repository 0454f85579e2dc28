------------------------------- MODULE MclProofs -------------------------------
(***************************************************************************)
(* Lemmas about the methods of the particle filter, for any number of      *)
(* particles, any readings and any threshold: what each of them preserves. *)
(***************************************************************************)
EXTENDS Mcl, TLAPS

(* Why Tracked holds: every displacement is counted up to prev_odom_, and  *)
(* last_odom_ is never further from it than the threshold.  It is counted  *)
(* from what prev_odom_ was when the particle was placed, which is what    *)
(* prev_odom_ is now less the displacement, and was no further from the    *)
(* last reading of that moment.  Before the first reading nothing has been *)
(* displaced.                                                              *)
Counted(f) ==
    /\ f.last_odom = NoOdom =>
        /\ f.prev_odom = NoOdom
        /\ \A i \in Index : f.particles[i].off = 0
    /\ f.last_odom # NoOdom =>
        /\ f.prev_odom # NoOdom
        /\ NearlyZero(f.last_odom - f.prev_odom)
        /\ \A i \in Index :
            /\ f.particles[i].born # NoOdom
            /\ NearlyZero(f.particles[i].born - (f.prev_odom - f.particles[i].off))

LEMMA Fields ==
    ASSUME NEW M, NEW f \in Filter(M)
    PROVE  /\ f.particles \in [Index -> Particle]
           /\ f.last_odom \in Readings \cup {NoOdom}
           /\ f.prev_odom \in Readings \cup {NoOdom}
           /\ f.fresh \in BOOLEAN
           /\ f.map \in M
           /\ \A i \in Index :
                /\ f.particles[i] \in Particle
                /\ f.particles[i].from \in Nat
                /\ f.particles[i].off \in Int
                /\ f.particles[i].born \in Readings \cup {NoOdom}
  BY DEF Filter, Particle

LEMMA CountedIsTracked ==
    ASSUME NEW M, NEW f \in Filter(M), Counted(f)
    PROVE  Tracked(f)
<1> SUFFICES ASSUME f.last_odom # NoOdom, NEW i \in Index
             PROVE  /\ f.particles[i].born # NoOdom
                    /\ \E early, late \in Below :
                          f.particles[i].off
                            = early + (f.last_odom - f.particles[i].born) - late
  BY DEF Tracked
<1> DEFINE last  == f.last_odom
           prev  == f.prev_odom
           born  == f.particles[i].born
           off   == f.particles[i].off
           early == born - (prev - off)
           late  == last - prev
<1>1. last \in Int /\ prev \in Int /\ born \in Int /\ off \in Int /\ born # NoOdom
  BY Fields, ReadingsAssumption DEF Counted
<1>2. NearlyZero(early) /\ NearlyZero(late)
  BY DEF Counted
<1> HIDE DEF last, prev, born, off
<1>3. early \in Below /\ late \in Below
  BY <1>1, <1>2, EpsAssumption DEF Below, NearlyZero
<1>4. off = early + (last - born) - late
  BY <1>1
<1> HIDE DEF early, late
<1>5. \E e, l \in Below : off = e + (last - born) - l
  BY <1>3, <1>4
<1> QED BY <1>1, <1>5 DEF last, born, off

-----------------------------------------------------------------------------
LEMMA NewFilterLemma ==
    ASSUME NEW M, NEW m \in M
    PROVE  /\ NewFilter(m) \in Filter(M)
           /\ NewFilter(m).map = m
           /\ Counted(NewFilter(m))
           /\ OneOrigin(NewFilter(m))
  BY DEF NewFilter, Filter, Particle, Counted, OneOrigin

(* The scan, the processed sequence number and the map leave the particles *)
(* and the odometry alone.                                                 *)
LEMMA SettersLemma ==
    ASSUME NEW M, NEW f \in Filter(M), NEW m \in M
    PROVE  /\ SetScan(f) \in Filter(M) /\ ClearProcessedScan(f) \in Filter(M)
           /\ SetScan(f).map = f.map /\ ClearProcessedScan(f).map = f.map
           /\ SetMap(f, m) \in Filter(M) /\ SetMap(f, m).map = m
           /\ Counted(f) => /\ Counted(SetScan(f))
                            /\ Counted(ClearProcessedScan(f))
                            /\ Counted(SetMap(f, m))
           /\ OneOrigin(f) => /\ OneOrigin(SetScan(f))
                              /\ OneOrigin(ClearProcessedScan(f))
                              /\ OneOrigin(SetMap(f, m))
  BY DEF SetScan, ClearProcessedScan, SetMap, Filter, Counted, OneOrigin

(* A particle placed now has been displaced by nothing since prev_odom_,   *)
(* and the last reading is within the threshold of that.                   *)
LEMMA PlacedLemma ==
    ASSUME NEW M, NEW f \in Filter(M), NEW r \in Nat
    PROVE  /\ Placed(f, r) \in Particle
           /\ Placed(f, r).from = r
           /\ Counted(f) => /\ f.last_odom = NoOdom => Placed(f, r).off = 0
                            /\ f.last_odom # NoOdom =>
                                /\ Placed(f, r).born # NoOdom
                                /\ NearlyZero(Placed(f, r).born
                                              - (f.prev_odom - Placed(f, r).off))
<1>1. /\ Placed(f, r).off = 0 /\ Placed(f, r).from = r
      /\ Placed(f, r).born = f.last_odom
      /\ Placed(f, r) \in Particle
  BY Fields DEF Placed, Particle
<1>2. f.prev_odom # NoOdom => f.prev_odom \in Int
  BY Fields, ReadingsAssumption
<1> QED BY <1>1, <1>2 DEF Counted

(* Replacing the particles by others that are typed and counted keeps the  *)
(* filter typed and counted.                                               *)
LEMMA ParticlesLemma ==
    ASSUME NEW M, NEW f \in Filter(M), NEW ps \in [Index -> Particle]
    PROVE  LET g == [f EXCEPT !.particles = ps] IN
           /\ g \in Filter(M)
           /\ g.map = f.map /\ g.particles = ps
           /\ g.last_odom = f.last_odom /\ g.prev_odom = f.prev_odom
  BY DEF Filter

LEMMA InitializeLemma ==
    ASSUME NEW M, NEW f \in Filter(M), NEW r \in Nat
    PROVE  /\ Initialize(f, r) \in Filter(M)
           /\ Initialize(f, r).map = f.map
           /\ Counted(f) => Counted(Initialize(f, r))
           /\ OneOrigin(Initialize(f, r))
<1> DEFINE ps == [i \in Index |-> Placed(f, r)]
<1>1. ps \in [Index -> Particle]
  BY PlacedLemma
<1>2. Initialize(f, r) = [f EXCEPT !.particles = ps]
  BY DEF Initialize
<1>3. \A i \in Index : ps[i] = Placed(f, r)
  OBVIOUS
<1> HIDE DEF ps
<1> QED BY <1>1, <1>2, <1>3, ParticlesLemma, PlacedLemma DEF Counted, OneOrigin

LEMMA SimpleResetLemma ==
    ASSUME NEW M, NEW f \in Filter(M), NEW r \in Nat, NEW free \in Nat
    PROVE  /\ SimpleReset(f, r, free) \in Filter(M)
           /\ SimpleReset(f, r, free).map = f.map
           /\ Counted(f) => Counted(SimpleReset(f, r, free))
           /\ free >= NumParticles => OneOrigin(SimpleReset(f, r, free))
<1> DEFINE ps == [i \in Index |-> IF i <= free THEN Placed(f, r) ELSE f.particles[i]]
<1>1. ps \in [Index -> Particle]
  BY PlacedLemma, Fields
<1>2. SimpleReset(f, r, free) = [f EXCEPT !.particles = ps]
  BY DEF SimpleReset
<1>3. \A i \in Index : ps[i] \in {Placed(f, r), f.particles[i]}
  OBVIOUS
<1>4. free >= NumParticles => \A i \in Index : ps[i] = Placed(f, r)
  BY NumParticlesAssumption DEF Index
<1> HIDE DEF ps
<1> QED BY <1>1, <1>2, <1>3, <1>4, ParticlesLemma, PlacedLemma DEF Counted, OneOrigin

-----------------------------------------------------------------------------
(* The three cases of motionUpdate: the first reading starts the count, a  *)
(* small motion is put off, any other is applied in full.                  *)
LEMMA MotionUpdateLemma ==
    ASSUME NEW M, NEW f \in Filter(M), NEW x \in Readings, Counted(f)
    PROVE  /\ MotionUpdate(f, x) \in Filter(M)
           /\ MotionUpdate(f, x).map = f.map
           /\ Counted(MotionUpdate(f, x))
           /\ OneOrigin(f) => OneOrigin(MotionUpdate(f, x))
<1>0. x \in Int /\ x # NoOdom /\ Eps \in Nat /\ Eps > 0
  BY ReadingsAssumption, EpsAssumption
<1>1. CASE f.last_odom = NoOdom
  <2> DEFINE ps == [i \in Index |-> [f.particles[i] EXCEPT !.born = x]]
             g  == [f EXCEPT !.last_odom = x, !.prev_odom = x, !.particles = ps]
  <2>1. ps \in [Index -> Particle]
    BY Fields DEF Particle
  <2>2. \A i \in Index : /\ ps[i].born = x /\ ps[i].off = f.particles[i].off
                         /\ ps[i].from = f.particles[i].from
    BY Fields DEF Particle
  <2>3. MotionUpdate(f, x) = g
    BY <1>1 DEF MotionUpdate, FirstReading
  <2> HIDE DEF ps
  <2>4. /\ g \in Filter(M)
        /\ g.map = f.map /\ g.particles = ps /\ g.last_odom = x /\ g.prev_odom = x
    BY <2>1 DEF Filter
  <2> HIDE DEF g
  <2>5. Counted(g)
    BY <1>0, <1>1, <2>2, <2>4 DEF Counted, NearlyZero
  <2>6. OneOrigin(f) => OneOrigin(g)
    BY <2>2, <2>4 DEF OneOrigin
  <2> QED BY <2>3, <2>4, <2>5, <2>6
<1>2. CASE f.last_odom # NoOdom /\ NearlyZero(x - f.prev_odom)
  <2> DEFINE g == [f EXCEPT !.last_odom = x]
  <2>1. MotionUpdate(f, x) = g
    BY <1>2 DEF MotionUpdate
  <2>2. /\ g \in Filter(M)
        /\ g.map = f.map /\ g.particles = f.particles
        /\ g.last_odom = x /\ g.prev_odom = f.prev_odom
    BY DEF Filter
  <2> HIDE DEF g
  <2> QED BY <1>0, <1>2, <2>1, <2>2 DEF Counted, OneOrigin
<1>3. CASE f.last_odom # NoOdom /\ ~NearlyZero(x - f.prev_odom)
  <2> DEFINE ps == [i \in Index |->
                      [f.particles[i] EXCEPT !.off = @ + (x - f.prev_odom)]]
             g  == [f EXCEPT !.last_odom = x, !.prev_odom = x, !.particles = ps]
  <2>0. /\ f.prev_odom \in Int
        /\ \A i \in Index : f.particles[i].born \in Int /\ f.particles[i].born # NoOdom
    BY <1>3, Fields, ReadingsAssumption DEF Counted
  <2>1. ps \in [Index -> Particle]
    BY <2>0, <1>0, Fields DEF Particle
  <2>2. \A i \in Index : /\ ps[i].off = f.particles[i].off + (x - f.prev_odom)
                         /\ ps[i].born = f.particles[i].born
                         /\ ps[i].from = f.particles[i].from
    BY Fields DEF Particle
  <2>3. MotionUpdate(f, x) = g
    BY <1>3 DEF MotionUpdate, MoveAll
  <2> HIDE DEF ps
  <2>4. /\ g \in Filter(M)
        /\ g.map = f.map /\ g.particles = ps /\ g.last_odom = x /\ g.prev_odom = x
    BY <2>1 DEF Filter
  <2> HIDE DEF g
  <2>5. ASSUME NEW i \in Index
        PROVE  NearlyZero(ps[i].born - (x - ps[i].off))
    <3>1. x - ps[i].off = f.prev_odom - f.particles[i].off
      BY <1>0, <2>0, <2>2, Fields
    <3> QED BY <1>3, <2>2, <3>1 DEF Counted
  <2>6. Counted(g)
    BY <1>0, <2>0, <2>2, <2>4, <2>5 DEF Counted, NearlyZero
  <2>7. OneOrigin(f) => OneOrigin(g)
    BY <2>2, <2>4 DEF OneOrigin
  <2> QED BY <2>3, <2>4, <2>6, <2>7
<1> QED BY <1>1, <1>2, <1>3

(* Resampling copies particles whole: it loses none of what is counted and *)
(* brings no origin that was not there.                                    *)
LEMMA SensorUpdateLemma ==
    ASSUME NEW M, NEW f \in Filter(M), NEW g \in SensorUpdate(f)
    PROVE  /\ g \in Filter(M)
           /\ g.map = f.map
           /\ Counted(f) => Counted(g)
           /\ OneOrigin(f) => OneOrigin(g)
<1>1. CASE g = f
  BY <1>1
<1>2. ASSUME NEW c \in Chosen, g = [Resample(f, c) EXCEPT !.fresh = FALSE]
      PROVE  /\ g \in Filter(M)
             /\ g.map = f.map
             /\ Counted(f) => Counted(g)
             /\ OneOrigin(f) => OneOrigin(g)
  <2> DEFINE ps == [i \in Index |-> f.particles[c[i]]]
  <2>1. \A i \in Index : c[i] \in Index /\ ps[i] = f.particles[c[i]]
    BY DEF Chosen
  <2>2. ps \in [Index -> Particle]
    BY <2>1, Fields
  <2>3. Resample(f, c) = [f EXCEPT !.particles = ps]
    BY DEF Resample
  <2> HIDE DEF ps
  <2>4. /\ g \in Filter(M)
        /\ g.map = f.map /\ g.particles = ps
        /\ g.last_odom = f.last_odom /\ g.prev_odom = f.prev_odom
    BY <1>2, <2>2, <2>3 DEF Filter
  <2> QED BY <2>1, <2>4 DEF Counted, OneOrigin
<1> QED BY <1>1, <1>2 DEF SensorUpdate
=============================================================================
