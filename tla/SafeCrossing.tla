---------------------------- MODULE SafeCrossing ----------------------------
(***************************************************************************)
(* What the programmed lights of an intersection promise to the traffic,   *)
(* whatever the sensors, the mode and the timing: one movement at a time,  *)
(* in the order green, yellow, red, and pedestrians only beside a green.   *)
(* The movements are the two directions of traffic and the tram; walk[d]   *)
(* is the pedestrian light that runs along with the traffic of d.          *)
(***************************************************************************)
EXTENDS TLAPS

Roads == {"ns", "ew"}
Movements == Roads \cup {"tram"}
Colours == {"R", "Y", "G"}

VARIABLES head, walk
vars == <<head, walk>>

Init == /\ head = [m \in Movements |-> "R"]
        /\ walk = [d \in Roads |-> "R"]

\* From all red, a movement is released, and its pedestrians with it.
Release(m) ==
  /\ \A n \in Movements : head[n] = "R"
  /\ head' = [head EXCEPT ![m] = "G"]
  /\ walk' = IF m \in Roads THEN [walk EXCEPT ![m] = "G"] ELSE walk

\* Pedestrians are told to clear the crossing while the cars still go.
Flash(d) ==
  /\ walk[d] = "G"
  /\ walk' = [walk EXCEPT ![d] = "Y"]
  /\ UNCHANGED head

\* Cars are stopped only after the pedestrians have been warned.
Caution(d) ==
  /\ walk[d] = "Y"
  /\ walk' = [walk EXCEPT ![d] = "R"]
  /\ head' = [head EXCEPT ![d] = "Y"]

\* A yellow ends in all red, never in the green of another movement.
Stop(d) ==
  /\ head[d] = "Y"
  /\ head' = [head EXCEPT ![d] = "R"]
  /\ UNCHANGED walk

\* The tram is the exception: it has no yellow, and its end releases the
\* north-south road at once.
TramClears ==
  /\ head["tram"] = "G"
  /\ head' = [head EXCEPT !["tram"] = "R", !["ns"] = "G"]
  /\ walk' = [walk EXCEPT !["ns"] = "G"]

Next == \/ \E m \in Movements : Release(m)
        \/ \E d \in Roads : Flash(d) \/ Caution(d) \/ Stop(d)
        \/ TramClears

Spec == Init /\ [][Next]_vars

-----------------------------------------------------------------------------
TypeOK == /\ head \in [Movements -> Colours]
          /\ walk \in [Roads -> Colours]

\* At most one movement has a light other than red.
OneMovement ==
  \A m, n \in Movements : head[m] # "R" /\ head[n] # "R" => m = n

\* Pedestrians never walk, or clear the crossing, beside a light that is not
\* green: no car turns into them from a movement that was not released.
WalkBesideGreen == \A d \in Roads : walk[d] # "R" => head[d] = "G"

CrossingInv == TypeOK /\ OneMovement /\ WalkBesideGreen

\* At most one movement is not red, and pedestrians go only beside a green.
\* The invariant is inductive as it stands: a release looks at all heads, and
\* the hand-over from the tram finds the two roads red because the tram is not.
THEOREM CrossingSafe == Spec => []CrossingInv
<1>1. Init => CrossingInv
  BY DEF Init, CrossingInv, TypeOK, OneMovement, WalkBesideGreen, Movements, Roads, Colours
<1>2. ASSUME CrossingInv, [Next]_vars PROVE CrossingInv'
  <2> USE <1>2 DEF CrossingInv, TypeOK, OneMovement, WalkBesideGreen, Movements, Roads, Colours
  <2>1. ASSUME NEW m \in Movements, Release(m) PROVE CrossingInv'
    <3>1. head' = [n \in Movements |-> IF n = m THEN "G" ELSE "R"]
      BY <2>1 DEF Release
    <3>2. walk = [d \in Roads |-> "R"]
      BY <2>1 DEF Release
    <3>3. walk' = [d \in Roads |-> IF d = m THEN "G" ELSE "R"]
      BY <2>1, <3>2 DEF Release
    <3> QED
      BY <3>1, <3>3
  <2>2. ASSUME NEW d \in Roads, Flash(d) PROVE CrossingInv'
    BY <2>2 DEF Flash
  <2>3. ASSUME NEW d \in Roads, Caution(d) PROVE CrossingInv'
    BY <2>3 DEF Caution
  <2>4. ASSUME NEW d \in Roads, Stop(d) PROVE CrossingInv'
    BY <2>4 DEF Stop
  <2>5. CASE TramClears
    BY <2>5 DEF TramClears
  <2>6. CASE UNCHANGED vars
    BY <2>6 DEF vars
  <2> QED
    BY <2>1, <2>2, <2>3, <2>4, <2>5, <2>6 DEF Next
<1> QED
  BY <1>1, <1>2, PTL DEF Spec
===============================================================================
