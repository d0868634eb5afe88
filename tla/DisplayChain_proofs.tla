------------------------- MODULE DisplayChain_proofs -------------------------
(***************************************************************************)
(* For a card with any number of connectors and CRTCs, any number of flips *)
(* by another session and any call that fails: what a display that create  *)
(* returns is made of, and that nothing is left of one it gives up on.     *)
(***************************************************************************)
EXTENDS DisplayChain, FiniteSetTheorems, FunctionTheorems, TLAPS

-----------------------------------------------------------------------------
(* Which allocation is which.                                              *)

AllProps == {PropsData(o) : o \in Objects}
Allocations == {Display} \cup AllProps \cup Temporary

LEMMA Distinct ==
  /\ Display \notin Temporary /\ Display \notin AllProps
  /\ \A o : PropsData(o) \notin Temporary /\ PropsData(o) # Display
  /\ \A o, p : PropsData(o) = PropsData(p) => o = p
  <1>1. \A x \in Temporary : x[1] \in {"resources", "planeResources", "plane", "connector", "encoder", "crtc"}
    BY DEF Temporary, Planes
  <1>2. \A o : PropsData(o)[1] = "propsData" /\ PropsData(o)[2] = o
    BY DEF PropsData
  <1>3. Display[1] = "display"
    BY DEF Display
  <1>4. QED
    BY <1>1, <1>2, <1>3 DEF AllProps

FirstPlanes(k) == {<<"plane", q>> : q \in 1 .. k}

LEMMA PlanesCounted ==
  ASSUME NEW k \in Nat
  PROVE  Cardinality(FirstPlanes(k)) = k
  <1> DEFINE f == [q \in 1 .. k |-> <<"plane", q>>]
  <1>1. f \in Bijection(1 .. k, FirstPlanes(k))
    <2>1. f \in [1 .. k -> FirstPlanes(k)]
      BY DEF FirstPlanes
    <2>2. \A q, r \in 1 .. k : f[q] = f[r] => q = r
      OBVIOUS
    <2>3. \A x \in FirstPlanes(k) : \E q \in 1 .. k : f[q] = x
      BY DEF FirstPlanes
    <2>4. QED
      BY <2>1, <2>2, <2>3, Fun_IsBij
  <1>2. IsFiniteSet(1 .. k) /\ Cardinality(1 .. k) = k
    BY FS_Interval
  <1>3. QED
    BY <1>1, <1>2, FS_Bijection DEF ExistsBijection

-----------------------------------------------------------------------------
(* The invariant.                                                          *)

Acquiring == {"resources", "planeResources", "planes", "connector", "encoder", "crtc", "blob", "properties", "error"}
Searching == Acquiring \ {"properties", "error"}

\* What is allocated, location by location.
LiveInv ==
  /\ live \subseteq Allocations
  /\ pc = "start" => live = {} /\ set = {} /\ blobs = 0
  /\ pc \in Acquiring =>
       /\ Display \in live
       /\ \A o \in Objects : PropsData(o) \in live => o \in set
       /\ \A o \in Objects : o \in set => PropsData(o) \in live
       /\ blobs = IF "mode" \in set THEN 1 ELSE 0
  /\ pc \in Searching => set = {}
  /\ pc = "planes" => \E k \in 0 .. CrtcCount - 1 : Planes \cap live = FirstPlanes(k)
  /\ pc = "planeResources" => Planes \cap live = {}
  /\ pc = "resources" => Planes \cap live = {}
  /\ pc = "created" => live = {Display} \cup AllProps /\ blobs = 1 /\ set = Objects \cup {"mode"}
  /\ pc = "unwind" => live \subseteq {Display} /\ blobs = 0
  /\ pc \in {"failed", "done"} => live = {} /\ blobs = 0

\* What is known of the chain as it grows.
ChainInv ==
  /\ pc = "encoder" => chain.connector \in connected
  /\ pc \in {"crtc", "blob", "properties", "created"} =>
       /\ chain.connector \in connected
       /\ chain.encoder = chain.connector
       /\ crtcOf[chain.encoder] # 0
  /\ pc \in {"blob", "properties", "created"} =>
       /\ chain.crtc = crtcOf[chain.encoder] /\ fbOf[chain.crtc] # 0
       /\ chain.plane \in {0, chain.crtc}
  /\ pc = "properties" => "mode" \in set /\ ("plane" \in set => chain.plane # 0)
  /\ pc = "created" => chain.plane # 0

DisplayInv == TypeOK /\ LiveInv /\ ChainInv

LEMMA DisplayInit == Init => DisplayInv
  <1> SUFFICES ASSUME Init PROVE DisplayInv
    OBVIOUS
  <1>1. TypeOK
    <2>1. fbOf \in [Crtcs -> 0 .. MaxFlips + 1] /\ planeFb \in [Crtcs -> 0 .. MaxFlips + 1]
      BY DisplayAssumption DEF Init
    <2>2. short \subseteq Objects /\ flips \in 0 .. MaxFlips /\ blobs \in 0 .. 1
      BY DisplayAssumption DEF Init
    <2>3. QED
      BY <2>1, <2>2 DEF Init, TypeOK, NoChain, Locations
  <1>2. LiveInv /\ ChainInv
    BY DEF Init, LiveInv, ChainInv, Acquiring, Searching
  <1>3. QED
    BY <1>1, <1>2 DEF DisplayInv

\* Up to the planes: one allocation after the other.
LEMMA StartStep ==
  ASSUME DisplayInv, AllocDisplay \/ GetResources \/ GetPlane
  PROVE  DisplayInv'
  <1>0. TypeOK /\ LiveInv /\ ChainInv
    BY DEF DisplayInv
  <1>1. UNCHANGED <<connected, crtcOf, fbOf, short, flips, chain, set, blobs, mishap>>
    BY DEF AllocDisplay, GetResources, GetPlane, hardware
  <1>2. CASE AllocDisplay
    <2>1. /\ pc = "start" /\ live = {} /\ set = {} /\ blobs = 0 /\ planeFb' = planeFb
          /\ \/ live' = {Display} /\ pc' = "resources"
             \/ live' = {} /\ pc' = "failed"
      BY <1>0, <1>2 DEF AllocDisplay, LiveInv
    <2>2. TypeOK'
      BY <1>0, <1>1, <2>1 DEF TypeOK, Locations
    <2>3. LiveInv'
      BY <1>1, <2>1, Distinct DEF LiveInv, Allocations, Acquiring, Searching, Temporary
    <2>4. ChainInv'
      BY <2>1 DEF ChainInv
    <2>5. QED
      BY <2>2, <2>3, <2>4 DEF DisplayInv
  <1>3. CASE GetResources
    <2>1. /\ pc \in {"resources", "planeResources"} /\ planeFb' = planeFb
          /\ \/ /\ live' = live \cup {<<pc, 0>>}
                /\ pc' = IF pc = "resources" THEN "planeResources" ELSE "planes"
             \/ live' = live /\ pc' = "error"
      BY <1>3 DEF GetResources
    <2>2. <<pc, 0>> \in Temporary /\ <<pc, 0>> \notin Planes
      BY <2>1 DEF Temporary, Planes
    <2>3. live' \subseteq Allocations
      BY <1>0, <2>1, <2>2 DEF LiveInv, Allocations
    <2>4. TypeOK'
      BY <1>0, <1>1, <2>1, <2>3 DEF TypeOK, Locations, Allocations, AllProps
    <2>5. Planes \cap live' = {}
      BY <1>0, <2>1, <2>2 DEF LiveInv
    <2>6. {} = FirstPlanes(0) /\ 0 \in 0 .. CrtcCount - 1
      BY DisplayAssumption DEF FirstPlanes
    <2>7. pc' = "planes" => \E k \in 0 .. CrtcCount - 1 : Planes \cap live' = FirstPlanes(k)
      BY <2>5, <2>6
    <2>8. /\ Display \in live'
          /\ \A o \in Objects : PropsData(o) \in live' <=> PropsData(o) \in live
      BY <1>0, <2>1, <2>2, Distinct DEF LiveInv, Acquiring
    <2>9. LiveInv'
      BY <1>0, <1>1, <2>1, <2>3, <2>5, <2>7, <2>8 DEF LiveInv, Acquiring, Searching
    <2>10. ChainInv'
      BY <2>1 DEF ChainInv
    <2>11. QED
      BY <2>4, <2>9, <2>10 DEF DisplayInv
  <1>4. CASE GetPlane
    <2> DEFINE p == Cardinality(Planes \cap live) + 1
    <2>1. PICK k \in 0 .. CrtcCount - 1 : Planes \cap live = FirstPlanes(k)
      BY <1>0, <1>4 DEF LiveInv, GetPlane
    <2>2. p = k + 1 /\ p \in Crtcs /\ CrtcCount \in Nat
      BY <2>1, PlanesCounted, DisplayAssumption DEF Crtcs
    <2>3. /\ pc = "planes"
          /\ \/ /\ live' = live \cup {<<"plane", p>>}
                /\ planeFb' = [planeFb EXCEPT ![p] = fbOf[p]]
                /\ pc' = IF p + 1 \in Crtcs THEN "planes" ELSE "connector"
             \/ live' = live /\ planeFb' = planeFb /\ pc' = "error"
      BY <1>4 DEF GetPlane
    <2> HIDE DEF p
    <2>4. <<"plane", p>> \in Temporary /\ <<"plane", p>> \in Planes
      BY <2>2 DEF Temporary, Planes
    <2>5. live' \subseteq Allocations
      BY <1>0, <2>3, <2>4 DEF LiveInv, Allocations
    <2>6. planeFb' \in [Crtcs -> 0 .. MaxFlips + 1]
      BY <1>0, <2>2, <2>3 DEF TypeOK
    <2>7. TypeOK'
      BY <1>0, <1>1, <2>3, <2>5, <2>6 DEF TypeOK, Locations, Allocations, AllProps
    <2>8. ASSUME pc' = "planes" PROVE \E l \in 0 .. CrtcCount - 1 : Planes \cap live' = FirstPlanes(l)
      <3>1. live' = live \cup {<<"plane", p>>} /\ p + 1 \in Crtcs
        BY <2>3, <2>8
      <3>2. Planes \cap live' = FirstPlanes(k) \cup {<<"plane", p>>}
        BY <2>1, <2>4, <3>1
      <3>3. 1 .. p = (1 .. k) \cup {p}
        BY <2>2
      <3>4. FirstPlanes(p) = FirstPlanes(k) \cup {<<"plane", p>>}
        BY <3>3 DEF FirstPlanes
      <3>5. p \in 0 .. CrtcCount - 1
        BY <2>2, <3>1 DEF Crtcs
      <3>6. QED
        BY <3>2, <3>4, <3>5
    <2>9. /\ Display \in live'
          /\ \A o \in Objects : PropsData(o) \in live' <=> PropsData(o) \in live
      BY <1>0, <2>3, <2>4, Distinct DEF LiveInv, Acquiring
    <2>10. LiveInv'
      BY <1>0, <1>1, <2>3, <2>5, <2>8, <2>9 DEF LiveInv, Acquiring, Searching
    <2>11. ChainInv'
      BY <2>3 DEF ChainInv
    <2>12. QED
      BY <2>7, <2>10, <2>11 DEF DisplayInv
  <1>5. QED
    BY <1>2, <1>3, <1>4

\* The search: what each object adds to the chain.
LEMMA SearchStep ==
  ASSUME DisplayInv, GetConnector \/ GetEncoder \/ GetCrtc
  PROVE  DisplayInv'
  <1>0. TypeOK /\ LiveInv /\ ChainInv
    BY DEF DisplayInv
  <1>1. UNCHANGED <<connected, crtcOf, fbOf, short, flips, planeFb, set, blobs, mishap>>
    BY DEF GetConnector, GetEncoder, GetCrtc, hardware
  <1>2. /\ pc \in {"connector", "encoder", "crtc"} /\ pc' \in {"connector", "encoder", "crtc", "blob", "error"}
        /\ \E x \in {"connector", "encoder", "crtc"} : live' \in {live, live \cup {<<x, 0>>}}
    BY DEF GetConnector, GetEncoder, GetCrtc
  <1>3. PICK x \in {"connector", "encoder", "crtc"} : live' \in {live, live \cup {<<x, 0>>}}
    BY <1>2
  <1>4. <<x, 0>> \in Temporary
    BY DEF Temporary
  <1>5. LiveInv' /\ live' \subseteq Allocations
    <2>1. live' \subseteq Allocations
      BY <1>0, <1>3, <1>4 DEF LiveInv, Allocations
    <2>2. /\ Display \in live'
          /\ \A o \in Objects : PropsData(o) \in live' <=> PropsData(o) \in live
      BY <1>0, <1>2, <1>3, <1>4, Distinct DEF LiveInv, Acquiring
    <2>3. QED
      BY <1>0, <1>1, <1>2, <2>1, <2>2 DEF LiveInv, Acquiring, Searching
  <1>6. CASE GetConnector
    <2>1. /\ pc' \in {"connector", "encoder", "error"}
          /\ \/ chain' = NoChain /\ pc' = "error"
             \/ /\ chain.connector + 1 \in Connectors
                /\ chain' = [chain EXCEPT !.connector = chain.connector + 1]
                /\ pc' = "encoder" => chain.connector + 1 \in connected
      <3>1. chain.connector \in Nat /\ ConnectorCount \in Nat
        <4>1. chain.connector \in {0} \cup Connectors
          BY <1>0 DEF TypeOK
        <4>2. QED
          BY <4>1, DisplayAssumption DEF Connectors
      <3>2. CASE PastLast(chain.connector + 1)
        BY <1>6, <3>2 DEF GetConnector
      <3>3. CASE ~PastLast(chain.connector + 1)
        <4>1. chain.connector + 1 \in Connectors
          BY <3>1, <3>3 DEF PastLast, Connectors
        <4>2. QED
          BY <1>6, <3>3, <4>1 DEF GetConnector
      <3>4. QED
        BY <3>2, <3>3
    <2>2. chain' \in [connector : {0} \cup Connectors, encoder : {0} \cup Connectors,
                      crtc : {0} \cup Crtcs, plane : {0} \cup Crtcs]
      <3>1. NoChain \in [connector : {0} \cup Connectors, encoder : {0} \cup Connectors,
                         crtc : {0} \cup Crtcs, plane : {0} \cup Crtcs]
        BY DEF NoChain
      <3>2. CASE chain' = [chain EXCEPT !.connector = chain.connector + 1] /\ chain.connector + 1 \in Connectors
        BY <1>0, <3>2 DEF TypeOK
      <3>3. QED
        BY <2>1, <3>1, <3>2
    <2>3. TypeOK'
      BY <1>0, <1>1, <1>2, <1>5, <2>2 DEF TypeOK, Locations, Allocations, AllProps
    <2>4. pc' = "encoder" => chain'.connector \in connected'
      BY <1>0, <1>1, <2>1 DEF TypeOK
    <2>5. ChainInv'
      BY <2>1, <2>4 DEF ChainInv
    <2>6. QED
      BY <1>5, <2>3, <2>5 DEF DisplayInv
  <1>7. CASE GetEncoder
    <2>1. /\ pc = "encoder"
          /\ \/ /\ crtcOf[chain.connector] # 0 /\ pc' = "crtc"
                /\ chain' = [chain EXCEPT !.encoder = chain.connector]
             \/ pc' = "error" /\ chain' = chain
      BY <1>7 DEF GetEncoder
    <2>2. chain' \in [connector : {0} \cup Connectors, encoder : {0} \cup Connectors,
                      crtc : {0} \cup Crtcs, plane : {0} \cup Crtcs]
      BY <1>0, <2>1 DEF TypeOK
    <2>3. TypeOK'
      BY <1>0, <1>1, <1>2, <1>5, <2>2 DEF TypeOK, Locations, Allocations, AllProps
    <2>4. pc' = "crtc" => /\ chain'.connector \in connected'
                          /\ chain'.encoder = chain'.connector
                          /\ crtcOf'[chain'.encoder] # 0
      BY <1>0, <1>1, <2>1 DEF TypeOK, ChainInv
    <2>5. ChainInv'
      BY <2>1, <2>4 DEF ChainInv
    <2>6. QED
      BY <1>5, <2>3, <2>5 DEF DisplayInv
  <1>8. CASE GetCrtc
    <2> DEFINE c == crtcOf[chain.encoder]
    <2>1. /\ pc = "crtc"
          /\ \/ /\ fbOf[c] # 0 /\ pc' = "blob"
                /\ \E p \in {0} \cup PlanesShowing(c, fbOf[c]) :
                     chain' = [chain EXCEPT !.crtc = c, !.plane = p]
             \/ pc' = "error" /\ chain' = chain
      BY <1>8 DEF GetCrtc
    <2>2. c \in Crtcs /\ chain.connector \in connected /\ chain.encoder = chain.connector /\ c # 0
      BY <1>0, <2>1 DEF TypeOK, ChainInv
    <2> HIDE DEF c
    <2>3. CASE pc' = "error"
      <3>1. chain' = chain
        BY <2>1, <2>3
      <3>2. TypeOK'
        BY <1>0, <1>1, <1>2, <1>5, <3>1 DEF TypeOK, Locations, Allocations, AllProps
      <3>3. ChainInv'
        BY <2>3 DEF ChainInv
      <3>4. QED
        BY <1>5, <3>2, <3>3 DEF DisplayInv
    <2>4. CASE pc' = "blob"
      <3>1. PICK p \in {0} \cup PlanesShowing(c, fbOf[c]) :
              chain' = [chain EXCEPT !.crtc = c, !.plane = p]
        BY <2>1, <2>4
      <3>2. p \in {0, c} /\ fbOf[c] # 0
        BY <2>1, <2>4 DEF PlanesShowing
      <3>3. chain' \in [connector : {0} \cup Connectors, encoder : {0} \cup Connectors,
                        crtc : {0} \cup Crtcs, plane : {0} \cup Crtcs]
        BY <1>0, <2>2, <3>1, <3>2 DEF TypeOK
      <3>4. TypeOK'
        BY <1>0, <1>1, <1>2, <1>5, <3>3 DEF TypeOK, Locations, Allocations, AllProps
      <3>5. /\ chain'.connector = chain.connector /\ chain'.encoder = chain.encoder
            /\ chain'.crtc = c /\ chain'.plane = p
        BY <1>0, <3>1 DEF TypeOK
      <3>6. ChainInv'
        BY <1>1, <2>2, <2>4, <3>2, <3>5 DEF ChainInv, c
      <3>7. QED
        BY <1>5, <3>4, <3>6 DEF DisplayInv
    <2>5. QED
      BY <2>1, <2>3, <2>4
  <1>9. QED
    BY <1>6, <1>7, <1>8

\* The display is filled in and handed over.
LEMMA FillStep ==
  ASSUME DisplayInv, CreateBlob \/ Acquire \/ Return
  PROVE  DisplayInv'
  <1>0. TypeOK /\ LiveInv /\ ChainInv
    BY DEF DisplayInv
  <1>1. UNCHANGED <<connected, crtcOf, fbOf, short, flips, planeFb, chain>>
    BY DEF CreateBlob, Acquire, Return, hardware
  <1>2. CASE CreateBlob
    <2>1. /\ pc = "blob" /\ set = {} /\ blobs = 0 /\ live' = live /\ mishap' = mishap
          /\ \/ blobs' = 1 /\ set' = {"mode"} /\ pc' = "properties"
             \/ blobs' = 0 /\ set' = {} /\ pc' = "error"
      <3>1. pc = "blob" /\ set = {} /\ blobs = 0
        BY <1>0, <1>2 DEF CreateBlob, LiveInv, Searching, Acquiring
      <3>2. QED
        BY <1>2, <3>1 DEF CreateBlob
    <2>2. TypeOK'
      <3>1. blobs' \in 0 .. 1
        BY <2>1
      <3>2. set' \subseteq Objects \cup {"mode"} /\ pc' \in Locations
        BY <2>1 DEF Locations
      <3>3. QED
        BY <1>0, <1>1, <2>1, <3>1, <3>2 DEF TypeOK
    <2>3. LiveInv'
      BY <1>0, <2>1 DEF LiveInv, Acquiring, Searching, Objects
    <2>4. ChainInv'
      BY <1>0, <1>1, <2>1 DEF ChainInv
    <2>5. QED
      BY <2>2, <2>3, <2>4 DEF DisplayInv
  <1>3. CASE Acquire
    <2> DEFINE o == Unacquired
    <2>1. pc = "properties" /\ blobs' = blobs /\ o \in Objects
      BY <1>3 DEF Acquire, Unacquired, Objects
    <2>2. \/ pc' = "crashed" /\ mishap' = {"null plane"} /\ live' = live /\ set' = set
          \/ /\ pc' = "properties" /\ mishap' = mishap
             /\ live' = live \cup {PropsData(o)} /\ set' = set \cup {o}
             /\ o = "plane" => chain.plane # 0
          \/ pc' = "error" /\ mishap' = mishap /\ live' = live /\ set' = set
      BY <1>3 DEF Acquire, AcquireProperties
    <2> HIDE DEF o
    <2>3. live' \subseteq Allocations /\ set' \subseteq Objects \cup {"mode"}
      BY <1>0, <2>1, <2>2 DEF TypeOK, LiveInv, Allocations, AllProps
    <2>4. TypeOK'
      BY <1>0, <1>1, <2>1, <2>2, <2>3 DEF TypeOK, Locations, Allocations, AllProps
    <2>5. CASE pc' = "crashed"
      BY <2>3, <2>4, <2>5 DEF DisplayInv, LiveInv, ChainInv, Acquiring, Searching
    <2>6. CASE pc' = "error"
      <3>1. live' = live /\ set' = set
        BY <2>2, <2>6
      <3>2. LiveInv'
        BY <1>0, <2>1, <2>6, <3>1 DEF LiveInv, Acquiring, Searching
      <3>3. QED
        BY <2>4, <2>6, <3>2 DEF DisplayInv, ChainInv
    <2>7. CASE pc' = "properties"
      <3>1. /\ live' = live \cup {PropsData(o)} /\ set' = set \cup {o}
            /\ o = "plane" => chain.plane # 0
        BY <2>2, <2>7
      <3>2. \A x \in Objects : PropsData(x) \in live' <=> x \in set'
        BY <1>0, <2>1, <3>1, Distinct DEF LiveInv, Acquiring
      <3>3. Display \in live' /\ ("mode" \in set' <=> "mode" \in set)
        BY <1>0, <2>1, <3>1 DEF LiveInv, Acquiring, Objects
      <3>4. blobs' = IF "mode" \in set' THEN 1 ELSE 0
        BY <1>0, <2>1, <3>3 DEF LiveInv, Acquiring
      <3>5. LiveInv'
        BY <2>3, <2>7, <3>2, <3>3, <3>4 DEF LiveInv, Acquiring, Searching
      <3>6. "plane" \in set' => chain'.plane # 0
        BY <1>0, <1>1, <2>1, <3>1 DEF ChainInv
      <3>7. ChainInv'
        BY <1>0, <1>1, <2>1, <2>7, <3>3, <3>6 DEF ChainInv
      <3>8. QED
        BY <2>4, <3>5, <3>7 DEF DisplayInv
    <2>8. QED
      BY <2>2, <2>5, <2>6, <2>7
  <1>4. CASE Return
    <2>1. /\ pc = "properties" /\ pc' = "created" /\ Objects \subseteq set
          /\ live' = live \ Temporary /\ set' = set /\ blobs' = blobs /\ mishap' = mishap
      BY <1>4 DEF Return, UnusedFreed
    <2>2. set = Objects \cup {"mode"} /\ blobs = 1 /\ Display \in live /\ AllProps \subseteq live
      <3>1. "mode" \in set /\ set \subseteq Objects \cup {"mode"}
        BY <1>0, <2>1 DEF TypeOK, ChainInv
      <3>2. /\ Display \in live /\ blobs = IF "mode" \in set THEN 1 ELSE 0
            /\ \A o \in Objects : o \in set => PropsData(o) \in live
        BY <1>0, <2>1 DEF LiveInv, Acquiring
      <3>3. QED
        BY <2>1, <3>1, <3>2 DEF AllProps
    <2>3. live' = {Display} \cup AllProps
      BY <1>0, <2>1, <2>2, Distinct DEF LiveInv, Allocations, AllProps
    <2>4. TypeOK'
      BY <1>0, <1>1, <2>1, <2>3 DEF TypeOK, Locations, AllProps
    <2>5. LiveInv'
      BY <2>1, <2>2, <2>3 DEF LiveInv, Acquiring, Searching, Allocations
    <2>6. "plane" \in set
      BY <2>2 DEF Objects
    <2>7. ChainInv'
      BY <1>0, <1>1, <2>1, <2>6 DEF ChainInv
    <2>8. QED
      BY <2>4, <2>5, <2>7 DEF DisplayInv
  <1>5. QED
    BY <1>2, <1>3, <1>4

\* The error path, destroy and the other session.
LEMMA EndStep ==
  ASSUME DisplayInv, ErrorPath \/ Destroy \/ \E c \in Crtcs : OtherFlip(c)
  PROVE  DisplayInv'
  <1>0. TypeOK /\ LiveInv /\ ChainInv
    BY DEF DisplayInv
  <1>1. CASE ErrorPath
    <2>1. /\ UNCHANGED <<connected, crtcOf, fbOf, short, flips, planeFb, chain, set, mishap>>
          /\ pc = "error" /\ pc' = "unwind"
          /\ live' = live \ (Temporary \cup AllProps)
          /\ blobs' = IF "mode" \in set THEN 0 ELSE blobs
      BY <1>1 DEF ErrorPath, AllProps, hardware, BlobDestroyed
    <2>2. live' \subseteq {Display} /\ blobs' = 0
      BY <1>0, <2>1 DEF LiveInv, Allocations, Acquiring
    <2>3. TypeOK'
      <3>1. blobs' \in 0 .. 1 /\ pc' \in Locations
        BY <2>1, <2>2 DEF Locations
      <3>2. live' \subseteq {Display} \cup {PropsData(o) : o \in Objects} \cup Temporary
        BY <2>1, <2>2
      <3>3. QED
        BY <1>0, <2>1, <3>1, <3>2 DEF TypeOK
    <2>4. LiveInv'
      BY <2>1, <2>2 DEF LiveInv, Allocations, Acquiring, Searching
    <2>5. QED
      BY <2>1, <2>3, <2>4 DEF DisplayInv, ChainInv
  <1>2. CASE Destroy
    <2>1. /\ UNCHANGED <<connected, crtcOf, fbOf, short, flips, planeFb, chain, set>>
          /\ pc \in {"created", "unwind"} /\ pc' \in {"crashed", "failed", "done"}
          /\ live' = live \ ({Display} \cup {PropsData(o) : o \in set})
          /\ mishap' \subseteq {"double free", "null plane"}
      BY <1>0, <1>2 DEF Destroy, hardware, TypeOK
    <2>2. blobs' = IF pc = "created" THEN BlobDestroyed ELSE blobs
      BY <1>2 DEF Destroy
    <2>3. live' = {}
      <3>1. CASE pc = "created"
        BY <1>0, <2>1, <3>1 DEF LiveInv, AllProps
      <3>2. CASE pc = "unwind"
        BY <1>0, <2>1, <3>2 DEF LiveInv
      <3>3. QED
        BY <2>1, <3>1, <3>2
    <2>4. blobs' = 0
      BY <1>0, <2>1, <2>2 DEF LiveInv, BlobDestroyed
    <2>5. TypeOK'
      <3>1. blobs' \in 0 .. 1 /\ pc' \in Locations
        <4>1. pc' \in Locations
          BY <2>1 DEF Locations
        <4>2. blobs' \in 0 .. 1
          BY <2>4
        <4>3. QED
          BY <4>1, <4>2
      <3>2. live' \subseteq {Display} \cup {PropsData(o) : o \in Objects} \cup Temporary
        BY <2>3
      <3>3. QED
        BY <1>0, <2>1, <3>1, <3>2 DEF TypeOK
    <2>6. LiveInv'
      BY <2>1, <2>3, <2>4 DEF LiveInv, Acquiring, Searching
    <2>7. QED
      BY <2>1, <2>5, <2>6 DEF DisplayInv, ChainInv
  <1>3. CASE \E c \in Crtcs : OtherFlip(c)
    <2>1. PICK c \in Crtcs : OtherFlip(c)
      BY <1>3
    <2>2. /\ UNCHANGED <<pc, connected, crtcOf, short, planeFb, chain, set, live, blobs, mishap>>
          /\ pc # "created" /\ flips < MaxFlips /\ flips' = flips + 1
          /\ fbOf' = [fbOf EXCEPT ![c] = flips + 2]
      BY <2>1 DEF OtherFlip
    <2>3. flips \in 0 .. MaxFlips /\ MaxFlips \in Nat /\ fbOf \in [Crtcs -> 0 .. MaxFlips + 1]
      BY <1>0, DisplayAssumption DEF TypeOK
    <2>4. flips' \in 0 .. MaxFlips /\ flips + 2 \in 0 .. MaxFlips + 1 /\ flips + 2 # 0
      BY <2>2, <2>3
    <2>5. /\ fbOf' \in [Crtcs -> 0 .. MaxFlips + 1]
          /\ \A d \in Crtcs : fbOf[d] # 0 => fbOf'[d] # 0
      BY <2>2, <2>3, <2>4
    <2>6. TypeOK'
      BY <1>0, <2>2, <2>4, <2>5 DEF TypeOK
    <2>7. LiveInv'
      BY <1>0, <2>2 DEF LiveInv
    <2>8. pc \in {"blob", "properties"} => chain.crtc \in Crtcs
      BY <1>0 DEF TypeOK, ChainInv
    <2>9. ChainInv'
      BY <1>0, <2>2, <2>5, <2>8 DEF ChainInv
    <2>10. QED
      BY <2>6, <2>7, <2>9 DEF DisplayInv
  <1>4. QED
    BY <1>1, <1>2, <1>3

LEMMA DisplayStep == DisplayInv /\ [Next]_vars => DisplayInv'
  <1> SUFFICES ASSUME DisplayInv, [Next]_vars PROVE DisplayInv'
    OBVIOUS
  <1>1. CASE UNCHANGED vars
    <2>1. UNCHANGED <<pc, connected, crtcOf, fbOf, short, flips, planeFb, chain, set, live, blobs, mishap>>
      BY <1>1 DEF vars, hardware
    <2>2. TypeOK'
      BY <2>1 DEF DisplayInv, TypeOK
    <2>3. LiveInv' /\ ChainInv'
      BY <2>1 DEF DisplayInv, LiveInv, ChainInv
    <2>4. QED
      BY <2>2, <2>3 DEF DisplayInv
  <1>2. QED
    BY <1>1, StartStep, SearchStep, FillStep, EndStep DEF Next, Create

-----------------------------------------------------------------------------
\* What is allocated, and which objects belong together, at each place of create
\* and destroy, in every reachable state.
THEOREM DisplayInvariant == Spec => []DisplayInv
  BY DisplayInit, DisplayStep, PTL DEF Spec

\* Every variable keeps to its type, whatever the card is like.
THEOREM DisplayTypeCorrect == Spec => []TypeOK
  <1>1. DisplayInv => TypeOK
    BY DEF DisplayInv
  <1>2. QED
    BY <1>1, DisplayInvariant, PTL

\* What create returns is one output chain, however many CRTCs show the same
\* framebuffer and whenever another session flips one of them.
THEOREM ChainIsOne == Spec => []OneChain
  <1>1. DisplayInv => OneChain
    BY DEF DisplayInv, ChainInv, OneChain
  <1>2. QED
    BY <1>1, DisplayInvariant, PTL

\* A display that is returned owns its property arrays and its blob, and
\* libdrm's objects are all freed.
THEOREM KeepsOnlyDisplay == Spec => []OnlyDisplayKept
  <1>1. DisplayInv => OnlyDisplayKept
    BY DEF DisplayInv, LiveInv, OnlyDisplayKept, AllProps
  <1>2. QED
    BY <1>1, DisplayInvariant, PTL

\* Whichever call fails, nothing is left, nor after destroy.
THEOREM LeavesNothing == Spec => []NothingLeft
  <1>1. DisplayInv => NothingLeft
    BY DEF DisplayInv, LiveInv, NothingLeft
  <1>2. QED
    BY <1>1, DisplayInvariant, PTL
=============================================================================
