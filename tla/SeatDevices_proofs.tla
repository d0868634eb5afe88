-------------------------- MODULE SeatDevices_proofs --------------------------
(***************************************************************************)
(* For any number of cards and input devices: descriptors name the devices *)
(* they were opened for, whatever fails and whatever comes and goes.  The  *)
(* argument is that no two descriptors are open on one device, so that     *)
(* there is always a free one and a released number frees one device.      *)
(***************************************************************************)
EXTENDS SeatDevices, FiniteSetTheorems, FunctionTheorems, WellFoundedInduction, TLAPS

-----------------------------------------------------------------------------
(* The invariant.                                                          *)

Things == Devices \cup {std, free, seat}
Using == {"inputs", "loop", "input_destroy"}
Locations == {"session", "node", "setup", "node_fails", "crashed", "session_destroy", "ended"} \cup Using

SeatTypes ==
  /\ build \in Builds /\ named \in BOOLEAN /\ cards \in [1..Cards -> CardKinds]
  /\ pc \in Locations /\ next \in 1..Cards + 1
  /\ fds \in [FDs -> Things] /\ held \in [Devices -> Nat]
  /\ kmsfd \in FDs \cup {NoFd} /\ inputfd \in [Inputs -> FDs \cup {NoFd}]
  /\ plugged \subseteq Inputs

\* No two descriptors are open on the same thing.
OneEach == \A x, y \in FDs : fds[x] = fds[y] /\ fds[x] # free => x = y

\* Standard input is descriptor 0, until the last close in the build without
\* a session.
StdInv ==
  /\ \A fd \in FDs : fds[fd] = std => fd = 0
  /\ pc \notin {"session_destroy", "ended"} => fds[0] = std
  /\ fds[0] # std =>
       build = "direct" /\ ~named /\ kmsfd = 0 /\ \A i \in 1..(next - 1) : cards[i] = "gone"
  /\ kmsfd = 0 => /\ pc \notin Using \cup {"setup"}
                  /\ \A i \in 1..(next - 1) : cards[i] = "gone"
                  /\ named => pc \notin {"node_fails"}
  /\ pc = "session" => \A fd \in FDs \ {0} : fds[fd] = free
  /\ pc = "ended" => \A fd \in FDs : fds[fd] # seat

\* The cards that are open: those passed over, and the one in use.
CardsInv ==
  /\ \A fd \in FDs, k \in 1..Cards : fds[fd] = card(k) =>
       \/ ~named /\ cards[k] = "poor"
       \/ fd = kmsfd /\ pc \in Using \cup {"setup", "node_fails", "crashed"}
  /\ pc = "node" => \A fd \in FDs, k \in 1..Cards : fds[fd] = card(k) => ~named /\ k < next
  /\ pc \in Using \cup {"setup"} =>
       /\ kmsfd \in FDs
       /\ \E i \in 1..Cards : fds[kmsfd] = card(i) /\ IF named THEN i = 1 ELSE cards[i] = "good"
  /\ pc \in Using => kmsfd \in atomic

\* libinput's descriptors are the ones open on its devices.
InputsInv ==
  /\ \A fd \in FDs, d \in Inputs : fds[fd] = input(d) => inputfd[d] = fd
  /\ \A d \in Inputs : inputfd[d] # NoFd => fds[inputfd[d]] = input(d)
  /\ pc \notin Using => \A d \in Inputs : inputfd[d] = NoFd
  /\ \A d \in Inputs : inputfd[d] # NoFd => d \in removed \/ (d \in plugged /\ d \notin pending)

HeldRight == \A d \in Devices : held[d] # 0 <=> \E fd \in FDs : fds[fd] = d
HeldInv == build = "logind" /\ pc # "ended" => HeldRight

SeatInv == SeatTypes /\ OneEach /\ StdInv /\ CardsInv /\ InputsInv /\ HeldInv

-----------------------------------------------------------------------------
(* Numbers and names.                                                      *)

LEMMA BoundsAreNat ==
  /\ Cards \in Nat /\ MaxFd \in Nat /\ Cardinality(Inputs) \in Nat
  /\ MaxFd > 3 + Cards + Cardinality(Inputs)
  /\ 0 \in FDs /\ NoFd \notin FDs /\ NoFd # 0 /\ FDs \subseteq Nat
  BY SeatAssumption, FS_CardinalityType DEF SeatAssumption, FDs, NoFd

LEMMA NamesDiffer ==
  /\ \A i, k : card(i) = card(k) => i = k
  /\ \A d, e : input(d) = input(e) => d = e
  /\ \A i, d : card(i) # input(d)
  /\ \A i : card(i) \notin {std, free, seat} /\ input(i) \notin {std, free, seat}
  /\ std # free /\ std # seat /\ free # seat
  /\ \A i \in 1..Cards : card(i) \in Devices
  /\ \A d \in Inputs : input(d) \in Devices
  /\ \A x \in Devices : (\E i \in 1..Cards : x = card(i)) \/ (\E d \in Inputs : x = input(d))
  /\ \A x \in Devices : x \notin {std, free, seat}
  <1>1. \A i : card(i)[1] = "card" /\ card(i)[2] = i /\ input(i)[1] = "input" /\ input(i)[2] = i
    BY DEF card, input
  <1>2. std[1] = "std" /\ free[1] = "free" /\ seat[1] = "seat"
    BY DEF std, free, seat
  <1>3. \A x \in Devices : (\E i \in 1..Cards : x = card(i)) \/ (\E d \in Inputs : x = input(d))
    BY DEF Devices
  <1>4. \A i : card(i) \notin {std, free, seat} /\ input(i) \notin {std, free, seat}
    BY <1>1, <1>2
  <1>5. QED
    BY <1>1, <1>2, <1>3, <1>4 DEF Devices

LEMMA OneMore ==
  ASSUME NEW S, IsFiniteSet(S), NEW n \in Nat, Cardinality(S) <= n, NEW x
  PROVE  /\ IsFiniteSet(S \cup {x}) /\ Cardinality(S \cup {x}) <= n + 1
         /\ Cardinality(S \cup {x}) \in Nat
  <1>1. Cardinality(S) \in Nat
    BY FS_CardinalityType
  <1>2. Cardinality(S \cup {x}) = IF x \in S THEN Cardinality(S) ELSE Cardinality(S) + 1
    BY FS_AddElement
  <1>3. IsFiniteSet(S \cup {x})
    BY FS_AddElement
  <1>4. QED
    BY <1>1, <1>2, <1>3

\* There are more descriptors than things to open.
LEMMA ThingsCounted ==
  /\ IsFiniteSet(Things \ {free}) /\ IsFiniteSet(FDs)
  /\ Cardinality(Things \ {free}) < Cardinality(FDs)
  <1>1. IsFiniteSet(1..Cards) /\ Cardinality(1..Cards) = Cards
    <2>1. IsFiniteSet(1..Cards) /\ Cardinality(1..Cards) = IF 1 > Cards THEN 0 ELSE Cards - 1 + 1
      <3>1. 1 \in Int /\ Cards \in Int
        BY BoundsAreNat
      <3>2. QED
        BY <3>1, FS_Interval
    <2>2. QED
      BY <2>1, BoundsAreNat
  <1> DEFINE C == {card(i) : i \in 1..Cards}
             I == {input(d) : d \in Inputs}
  <1>2. IsFiniteSet(C) /\ Cardinality(C) <= Cards /\ Cardinality(C) \in Nat
    <2>1. IsFiniteSet(C) /\ Cardinality(C) <= Cards
      <3> DEFINE f == [i \in 1..Cards |-> card(i)]
      <3>1. f \in Surjection(1..Cards, C)
        BY Fun_IsSurj
      <3>2. QED
        BY <1>1, <3>1, FS_Surjection
    <2>2. QED
      BY <2>1, FS_CardinalityType
  <1>3. IsFiniteSet(I) /\ Cardinality(I) <= Cardinality(Inputs) /\ Cardinality(I) \in Nat
    <2>1. IsFiniteSet(I) /\ Cardinality(I) <= Cardinality(Inputs)
      <3> DEFINE f == [d \in Inputs |-> input(d)]
      <3>1. f \in Surjection(Inputs, I)
        BY Fun_IsSurj
      <3>2. QED
        BY <3>1, SeatAssumption, FS_Surjection DEF SeatAssumption
    <2>2. QED
      BY <2>1, FS_CardinalityType
  <1> HIDE DEF C, I
  <1>4. IsFiniteSet(C \cup I) /\ Cardinality(C \cup I) <= Cards + Cardinality(Inputs)
    <2>1. IsFiniteSet(C \cup I) /\ Cardinality(C \cup I) = Cardinality(C) + Cardinality(I) - Cardinality(C \cap I)
      BY <1>2, <1>3, FS_Union
    <2>2. Cardinality(C \cap I) \in Nat
      BY <1>2, FS_Intersection, FS_CardinalityType
    <2>3. QED
      BY <1>2, <1>3, <2>1, <2>2, BoundsAreNat
  <1>6. /\ IsFiniteSet((C \cup I) \cup {std})
        /\ Cardinality((C \cup I) \cup {std}) <= Cards + Cardinality(Inputs) + 1
        /\ Cardinality((C \cup I) \cup {std}) \in Nat
    <2>1. Cards + Cardinality(Inputs) \in Nat
      BY BoundsAreNat
    <2>2. QED
      BY <1>4, <2>1, OneMore
  <1>7. /\ IsFiniteSet(((C \cup I) \cup {std}) \cup {seat})
        /\ Cardinality(((C \cup I) \cup {std}) \cup {seat}) <= Cards + Cardinality(Inputs) + 2
        /\ Cardinality(((C \cup I) \cup {std}) \cup {seat}) \in Nat
    <2>1. Cards + Cardinality(Inputs) + 1 \in Nat
      BY BoundsAreNat
    <2>2. Cardinality(((C \cup I) \cup {std}) \cup {seat}) <= (Cards + Cardinality(Inputs) + 1) + 1
      BY <1>6, <2>1, OneMore
    <2>3. /\ IsFiniteSet(((C \cup I) \cup {std}) \cup {seat})
          /\ Cardinality(((C \cup I) \cup {std}) \cup {seat}) \in Nat
      BY <1>6, <2>1, OneMore
    <2>4. QED
      BY <2>2, <2>3, BoundsAreNat
  <1>8. Things \ {free} = ((C \cup I) \cup {std}) \cup {seat}
    BY NamesDiffer DEF Things, Devices, C, I
  <1>9. IsFiniteSet(FDs) /\ Cardinality(FDs) = MaxFd - 1
    <2>1. IsFiniteSet(3..MaxFd) /\ Cardinality(3..MaxFd) = MaxFd - 2
      BY BoundsAreNat, FS_Interval
    <2>2. IsFiniteSet((3..MaxFd) \cup {0}) /\ Cardinality((3..MaxFd) \cup {0}) = (MaxFd - 2) + 1
      <3>1. 0 \notin 3..MaxFd
        BY BoundsAreNat
      <3>2. QED
        BY <2>1, <3>1, FS_AddElement
    <2>3. FDs = (3..MaxFd) \cup {0}
      BY DEF FDs
    <2>4. QED
      BY <2>2, <2>3, BoundsAreNat
  <1>10. QED
    BY <1>7, <1>8, <1>9, BoundsAreNat

\* So one of them is free, and Lowest finds it.
LEMMA FreeDescriptor ==
  ASSUME SeatTypes, OneEach
  PROVE  Lowest \in FDs /\ fds[Lowest] = free
  <1> DEFINE S == {fd \in FDs : fds[fd] = free}
  <1>1. S # {}
    <2>1. SUFFICES ASSUME S = {} PROVE FALSE
      OBVIOUS
    <2>2. fds \in [FDs -> Things \ {free}]
      BY <2>1 DEF SeatTypes
    <2>3. \E x, y \in FDs : x # y /\ fds[x] = fds[y]
      BY <2>2, ThingsCounted, FS_PigeonHole
    <2>4. QED
      BY <2>2, <2>3 DEF OneEach
  <1>2. \E x \in S : \A y \in S : x <= y
    <2> DEFINE R == OpToRel(<, Nat)
    <2>1. S \subseteq Nat
      BY BoundsAreNat
    <2>2. PICK x \in S : \A y \in S : ~(<<y, x>> \in R)
      <3> HIDE DEF S
      <3>1. QED
        BY <1>1, <2>1, NatLessThanWellFounded, WFMin
    <2>3. \A y \in S : ~(y < x)
      BY <2>1, <2>2 DEF OpToRel
    <2>4. QED
      BY <2>1, <2>3
  <1>3. Min(S) \in S
    BY <1>2 DEF Min
  <1>4. QED
    BY <1>3 DEF Lowest

-----------------------------------------------------------------------------
(* Opening and closing.                                                    *)

LEMMA Opened ==
  ASSUME SeatTypes, OneEach, fds[0] = std,
         NEW t \in Things, t # free, \A fd \in FDs : fds[fd] # t,
         fds' = [fds EXCEPT ![Lowest] = t]
  PROVE  /\ Lowest \in FDs /\ Lowest # 0 /\ fds[Lowest] = free
         /\ fds' \in [FDs -> Things] /\ fds'[0] = std
         /\ \A x \in FDs : fds'[x] = IF x = Lowest THEN t ELSE fds[x]
         /\ OneEach'
  <1>1. Lowest \in FDs /\ fds[Lowest] = free /\ Lowest # 0
    BY FreeDescriptor, NamesDiffer
  <1>2. fds \in [FDs -> Things]
    BY DEF SeatTypes
  <1>3. /\ fds' \in [FDs -> Things]
        /\ \A x \in FDs : fds'[x] = IF x = Lowest THEN t ELSE fds[x]
    BY <1>1, <1>2
  <1>4. fds'[0] = std
    BY <1>1, <1>3, BoundsAreNat
  <1>5. OneEach'
    BY <1>3 DEF OneEach
  <1>6. QED
    BY <1>1, <1>3, <1>4, <1>5

LEMMA Taken ==
  ASSUME SeatTypes, OneEach, fds[0] = std, HeldInv, pc # "ended",
         NEW t \in Devices, \A fd \in FDs : fds[fd] # t,
         kmr_session_take_control_of_device(t)
  PROVE  /\ Lowest \in FDs /\ Lowest # 0 /\ fds[Lowest] = free
         /\ fds' \in [FDs -> Things] /\ fds'[0] = std
         /\ \A x \in FDs : fds'[x] = IF x = Lowest THEN t ELSE fds[x]
         /\ OneEach'
         /\ held' \in [Devices -> Nat]
         /\ build = "logind" => HeldRight'
  <1>1. t \in Things /\ t # free /\ fds' = [fds EXCEPT ![Lowest] = t]
    BY NamesDiffer DEF Things, kmr_session_take_control_of_device
  <1>2. /\ Lowest \in FDs /\ Lowest # 0 /\ fds[Lowest] = free
        /\ fds' \in [FDs -> Things] /\ fds'[0] = std
        /\ \A x \in FDs : fds'[x] = IF x = Lowest THEN t ELSE fds[x]
        /\ OneEach'
    BY <1>1, Opened
  <1>3. PICK number \in Numbers : held' = [held EXCEPT ![t] = number]
    BY DEF kmr_session_take_control_of_device
  <1>4. number \in Nat /\ (build = "logind" => number = Lowest)
    <2>1. build \in {"direct", "logind", "seatd"}
      BY SeatAssumption DEF SeatTypes, SeatAssumption
    <2>2. CASE build = "direct"
      BY <1>3, <2>2 DEF Numbers
    <2>3. CASE build = "logind"
      BY <1>2, <1>3, <2>3, BoundsAreNat DEF Numbers
    <2>4. CASE build = "seatd"
      BY <1>3, <2>4, BoundsAreNat DEF Numbers
    <2>5. QED
      BY <2>1, <2>2, <2>3, <2>4
  <1>5. held \in [Devices -> Nat]
    BY DEF SeatTypes
  <1>6. /\ held' \in [Devices -> Nat]
        /\ \A d \in Devices : held'[d] = IF d = t THEN number ELSE held[d]
    BY <1>3, <1>4, <1>5
  <1>7. ASSUME build = "logind" PROVE HeldRight'
    <2>1. HeldRight
      BY <1>7 DEF HeldInv
    <2>2. ASSUME NEW d \in Devices
          PROVE  held'[d] # 0 <=> \E fd \in FDs : fds'[fd] = d
      <3>1. CASE d = t
        <4>1. held'[d] # 0
          BY <1>2, <1>4, <1>6, <1>7, <3>1
        <4>2. fds'[Lowest] = d
          BY <1>2, <3>1
        <4>3. QED
          BY <1>2, <4>1, <4>2
      <3>2. CASE d # t
        <4>1. held'[d] = held[d]
          BY <1>6, <3>2
        <4>2. d # free
          BY NamesDiffer
        <4>3. \A fd \in FDs : fds'[fd] = d <=> fds[fd] = d
          BY <1>2, <3>2, <4>2
        <4>4. QED
          BY <2>1, <4>1, <4>3 DEF HeldRight
      <3>3. QED
        BY <3>1, <3>2
    <2>3. QED
      BY <2>2 DEF HeldRight
  <1>8. QED
    BY <1>2, <1>6, <1>7

LEMMA Released ==
  ASSUME SeatTypes, OneEach, HeldInv, pc # "ended",
         NEW fd \in FDs \cup {NoFd}, kmr_session_release_device(fd)
  PROVE  /\ fds' \in [FDs -> Things]
         /\ \A x \in FDs : fds'[x] = IF x = fd THEN free ELSE fds[x]
         /\ OneEach'
         /\ held' \in [Devices -> Nat]
         /\ build = "logind" => HeldRight'
  <1>1. fds \in [FDs -> Things] /\ held \in [Devices -> Nat]
    BY DEF SeatTypes
  <1>2. CASE fd \in FDs
    <2>1. /\ held' = [d \in Devices |-> IF Names(fd, d) THEN 0 ELSE held[d]]
          /\ fds' = [fds EXCEPT ![fd] = free]
      BY <1>2 DEF kmr_session_release_device
    <2>2. /\ fds' \in [FDs -> Things]
          /\ \A x \in FDs : fds'[x] = IF x = fd THEN free ELSE fds[x]
      BY <1>1, <1>2, <2>1 DEF Things
    <2>3. held' \in [Devices -> Nat]
      BY <1>1, <2>1
    <2>4. OneEach'
      BY <2>2 DEF OneEach
    <2>5. ASSUME build = "logind" PROVE HeldRight'
      <3>1. HeldRight
        BY <2>5 DEF HeldInv
      <3>2. ASSUME NEW d \in Devices
            PROVE  held'[d] # 0 <=> \E x \in FDs : fds'[x] = d
        <4>1. d # free
          BY NamesDiffer
        <4>2. Names(fd, d) <=> fds[fd] = d
          BY <2>5 DEF Names
        <4>3. CASE fds[fd] = d
          <5>1. held'[d] = 0
            BY <2>1, <4>2, <4>3
          <5>2. \A x \in FDs : fds'[x] # d
            BY <1>2, <2>2, <4>1, <4>3 DEF OneEach
          <5>3. QED
            BY <5>1, <5>2
        <4>4. CASE fds[fd] # d
          <5>1. held'[d] = held[d]
            BY <2>1, <4>2, <4>4
          <5>2. \A x \in FDs : fds'[x] = d <=> fds[x] = d
            BY <2>2, <4>1, <4>4
          <5>3. QED
            BY <3>1, <5>1, <5>2 DEF HeldRight
        <4>5. QED
          BY <4>3, <4>4
      <3>3. QED
        BY <3>2 DEF HeldRight
    <2>6. QED
      BY <2>2, <2>3, <2>4, <2>5
  <1>3. CASE fd \notin FDs
    <2>1. fds' = fds /\ held' = held
      BY <1>3 DEF kmr_session_release_device
    <2>2. \A x \in FDs : x # fd
      BY <1>3
    <2>3. OneEach' /\ (HeldRight => HeldRight')
      BY <2>1 DEF OneEach, HeldRight
    <2>4. QED
      BY <1>1, <2>1, <2>2, <2>3 DEF HeldInv
  <1>4. QED
    BY <1>2, <1>3

-----------------------------------------------------------------------------
(* Every step keeps the invariant.                                         *)

LEMMA SeatInit == Init => SeatInv
  <1> SUFFICES ASSUME Init PROVE SeatInv
    OBVIOUS
  <1>1. /\ \A fd \in FDs : fds[fd] = IF fd = 0 THEN std ELSE free
        /\ \A d \in Devices : held[d] = 0
        /\ \A d \in Inputs : inputfd[d] = NoFd
        /\ kmsfd = 0 /\ next = 1 /\ pc = "session"
    BY DEF Init
  <1>2. SeatTypes
    <2>1. 1 \in 1..Cards + 1 /\ 0 \in FDs
      BY BoundsAreNat
    <2>2. fds \in [FDs -> Things] /\ held \in [Devices -> Nat] /\ inputfd \in [Inputs -> FDs \cup {NoFd}]
      BY DEF Init, Things
    <2>3. QED
      BY <2>1, <2>2 DEF Init, SeatTypes, Locations
  <1>3. OneEach /\ HeldInv
    BY <1>1, NamesDiffer DEF OneEach, HeldInv, HeldRight
  <1>4. StdInv
    <2>1. 1..(next - 1) = {}
      BY <1>1
    <2>2. QED
      BY <1>1, <2>1, NamesDiffer, BoundsAreNat DEF StdInv, Using
  <1>5. CardsInv /\ InputsInv
    BY <1>1, NamesDiffer DEF CardsInv, InputsInv, Using
  <1>6. QED
    BY <1>2, <1>3, <1>4, <1>5 DEF SeatInv

LEMMA SessionStep ==
  ASSUME SeatInv, kmr_session_create
  PROVE  SeatInv'
  <1>0. SeatTypes /\ OneEach /\ StdInv /\ CardsInv /\ InputsInv /\ HeldInv
    BY DEF SeatInv
  <1>1. /\ UNCHANGED <<build, named, cards, next, held, kmsfd, atomic, inputfd, plugged, pending, removed>>
        /\ pc = "session" /\ pc' \in {"node", "ended"}
        /\ \/ fds' = fds
           \/ build # "direct" /\ pc' = "node" /\ fds' = [fds EXCEPT ![Lowest] = seat]
    BY DEF kmr_session_create, config, inputs
  <1>2. /\ \A fd \in FDs \ {0} : fds[fd] = free
        /\ fds[0] = std /\ \A fd \in FDs : fds[fd] # seat
        /\ \A fd \in FDs : \A k : fds[fd] # card(k) /\ fds[fd] # input(k)
    <2>1. fds[0] = std /\ \A fd \in FDs \ {0} : fds[fd] = free
      BY <1>0, <1>1 DEF StdInv
    <2>2. QED
      BY <2>1, NamesDiffer
  <1>3. /\ fds' \in [FDs -> Things] /\ fds'[0] = std /\ OneEach'
        /\ \A fd \in FDs \ {0} : fds'[fd] \in {free, seat}
        /\ pc' = "ended" => \A fd \in FDs : fds'[fd] # seat
    <2>1. CASE fds' = fds
      <3>1. OneEach'
        BY <1>0, <2>1 DEF OneEach
      <3>2. QED
        BY <1>0, <1>2, <2>1, <3>1 DEF SeatTypes
    <2>2. CASE fds' = [fds EXCEPT ![Lowest] = seat] /\ pc' = "node"
      <3>1. seat \in Things /\ seat # free
        BY NamesDiffer DEF Things
      <3>2. QED
        BY <1>0, <1>2, <2>2, <3>1, Opened
    <2>3. QED
      BY <1>1, <2>1, <2>2
  <1>4. \A fd \in FDs : \A k : fds'[fd] # card(k) /\ fds'[fd] # input(k)
    BY <1>3, NamesDiffer
  <1>5. SeatTypes'
    BY <1>0, <1>1, <1>3 DEF SeatTypes, Locations
  <1>6. StdInv'
    BY <1>0, <1>1, <1>3, NamesDiffer DEF StdInv, Using
  <1>7. CardsInv'
    BY <1>1, <1>4 DEF CardsInv, Using
  <1>8. InputsInv'
    BY <1>0, <1>1, <1>4 DEF InputsInv, Using
  <1>9. HeldInv'
    <2>1. \A d \in Devices : (\A fd \in FDs : fds[fd] # d) /\ (\A fd \in FDs : fds'[fd] # d)
      BY <1>2, <1>4, NamesDiffer
    <2>2. QED
      BY <1>0, <1>1, <2>1 DEF HeldInv, HeldRight
  <1>10. QED
    BY <1>3, <1>5, <1>6, <1>7, <1>8, <1>9 DEF SeatInv

\* A card is opened, whether named or found by the search.
LEMMA OpenCard ==
  ASSUME SeatInv, pc = "node", NEW k \in 1..Cards,
         \A fd \in FDs : fds[fd] # card(k),
         kmr_session_take_control_of_device(card(k)), kmsfd' = Lowest,
         UNCHANGED <<build, named, cards, atomic, inputfd, plugged, pending, removed>>,
         next' \in 1..Cards + 1,
         \/ pc' = "setup" /\ (IF named THEN k = 1 ELSE cards[k] = "good")
         \/ pc' = "node" /\ ~named /\ cards[k] = "poor" /\ k < next' /\ next <= next'
  PROVE  SeatInv'
  <1>0. SeatTypes /\ OneEach /\ StdInv /\ CardsInv /\ InputsInv /\ HeldInv
    BY DEF SeatInv
  <1>1. card(k) \in Devices /\ fds[0] = std
    BY <1>0, NamesDiffer DEF StdInv
  <1>2. /\ Lowest \in FDs /\ Lowest # 0 /\ fds[Lowest] = free
        /\ fds' \in [FDs -> Things] /\ fds'[0] = std
        /\ \A x \in FDs : fds'[x] = IF x = Lowest THEN card(k) ELSE fds[x]
        /\ OneEach' /\ held' \in [Devices -> Nat]
        /\ build = "logind" => HeldRight'
    BY <1>0, <1>1, Taken
  <1>3. SeatTypes'
    BY <1>0, <1>2 DEF SeatTypes, Locations
  <1>4. StdInv'
    <2>1. \A fd \in FDs : fds'[fd] = std => fd = 0
      BY <1>0, <1>2, NamesDiffer DEF StdInv
    <2>2. QED
      BY <1>2, <2>1 DEF StdInv
  <1>5. CardsInv'
    <2>1. fds'[Lowest] = card(k)
      BY <1>2
    <2>2. ASSUME NEW fd \in FDs, NEW m \in 1..Cards, fds'[fd] = card(m)
          PROVE  /\ \/ ~named /\ cards[m] = "poor"
                    \/ fd = Lowest /\ pc' \in Using \cup {"setup", "node_fails", "crashed"}
                 /\ pc' = "node" => ~named /\ m < next'
      <3>1. CASE fd = Lowest
        <4>1. m = k
          BY <2>1, <2>2, <3>1, NamesDiffer
        <4>2. QED
          BY <3>1, <4>1
      <3>2. CASE fd # Lowest
        <4>1. fds[fd] = card(m)
          BY <1>2, <2>2, <3>2
        <4>2. ~named /\ m < next
          BY <1>0, <4>1 DEF CardsInv
        <4>3. cards[m] = "poor"
          BY <1>0, <4>1 DEF CardsInv, Using
        <4>4. pc' = "node" => m < next'
          BY <1>0, <4>2, BoundsAreNat DEF SeatTypes
        <4>5. QED
          BY <4>2, <4>3, <4>4
      <3>3. QED
        BY <3>1, <3>2
    <2>3. QED
      BY <1>2, <2>1, <2>2 DEF CardsInv, Using
  <1>6. InputsInv'
    <2>1. \A d \in Inputs : inputfd[d] = NoFd
      BY <1>0 DEF InputsInv, Using
    <2>2. \A fd \in FDs, d \in Inputs : fds'[fd] # input(d)
      BY <1>0, <1>2, <2>1, NamesDiffer, BoundsAreNat DEF InputsInv
    <2>3. QED
      BY <2>1, <2>2 DEF InputsInv
  <1>7. HeldInv'
    BY <1>2 DEF HeldInv
  <1>8. QED
    BY <1>2, <1>3, <1>4, <1>5, <1>6, <1>7 DEF SeatInv

\* Nothing is opened or closed: the steps that move on.
LEMMA MoveOn ==
  ASSUME SeatInv, UNCHANGED <<build, named, cards, fds, held, inputfd, plugged, pending, removed>>,
         next' \in 1..Cards + 1, pc' \in Locations, kmsfd' \in FDs \cup {NoFd}, pc \notin {"session", "ended"},
         StdInv', CardsInv', pc' \in Using \/ pc \notin Using
  PROVE  SeatInv'
  <1>0. SeatTypes /\ OneEach /\ StdInv /\ CardsInv /\ InputsInv /\ HeldInv
    BY DEF SeatInv
  <1>1. SeatTypes'
    BY <1>0 DEF SeatTypes
  <1>2. OneEach'
    BY <1>0 DEF OneEach
  <1>3. InputsInv'
    BY <1>0 DEF InputsInv
  <1>4. HeldInv'
    BY <1>0 DEF HeldInv, HeldRight
  <1>5. QED
    BY <1>1, <1>2, <1>3, <1>4 DEF SeatInv

LEMMA NodeStep ==
  ASSUME SeatInv, OpenNamed \/ SearchFails \/ open_drm_node_udev
  PROVE  SeatInv'
  <1>0. SeatTypes /\ OneEach /\ StdInv /\ CardsInv /\ InputsInv /\ HeldInv
    BY DEF SeatInv
  <1>1. /\ UNCHANGED <<build, named, cards, atomic, inputfd, plugged, pending, removed>> /\ pc = "node"
        /\ next \in 1..Cards + 1 /\ next \in Nat
    BY <1>0, BoundsAreNat DEF OpenNamed, SearchFails, open_drm_node_udev, config, inputs, SeatTypes
  <1>2. /\ fds[0] = std
        /\ \A fd \in FDs, k \in 1..Cards :
             fds[fd] = card(k) => ~named /\ cards[k] = "poor" /\ k < next
    BY <1>0, <1>1 DEF StdInv, CardsInv, Using
  \* The program moves on without a card.
  <1>3. ASSUME UNCHANGED <<fds, held>>, pc' \in {"node", "node_fails"}, next' \in 1..Cards + 1, next <= next',
               \/ kmsfd' = NoFd
               \/ /\ kmsfd' = kmsfd /\ ~named
                  /\ \A i \in 1..(next' - 1) : i \in 1..(next - 1) \/ cards[i] = "gone"
        PROVE  SeatInv'
    <2>1. StdInv'
      <3>1. kmsfd' = 0 => kmsfd = 0 /\ ~named /\ \A i \in 1..(next' - 1) : cards[i] = "gone"
        BY <1>0, <1>3, BoundsAreNat DEF StdInv
      <3>2. QED
        BY <1>0, <1>1, <1>2, <1>3, <3>1 DEF StdInv, Using
    <2>2. \A k \in 1..Cards : k < next => k < next'
      BY <1>1, <1>3, BoundsAreNat
    <2>3. CardsInv'
      BY <1>1, <1>2, <1>3, <2>2 DEF CardsInv, Using
    <2>4. pc' \in Locations /\ kmsfd' \in FDs \cup {NoFd}
      BY <1>0, <1>3 DEF Locations, SeatTypes
    <2>5. QED
      BY <1>1, <1>3, <2>1, <2>3, <2>4, MoveOn DEF Using
  <1>4. CASE OpenNamed
    <2>1. CASE Cards > 0 /\ kmr_session_take_control_of_device(card(1)) /\ kmsfd' = Lowest /\ pc' = "setup"
      <3>1. 1 \in 1..Cards /\ next' = next /\ named
        BY <1>4, <2>1, BoundsAreNat DEF OpenNamed, config
      <3>2. \A fd \in FDs : fds[fd] # card(1)
        BY <1>2, <3>1
      <3>3. QED
        BY <1>1, <2>1, <3>1, <3>2, OpenCard
    <2>2. CASE kmsfd' = NoFd /\ pc' = "node_fails" /\ UNCHANGED <<fds, held>>
      <3>1. next' = next /\ next <= next'
        BY <1>1, <1>4 DEF OpenNamed
      <3>2. QED
        BY <1>1, <1>3, <2>2, <3>1
    <2>3. QED
      BY <1>4, <2>1, <2>2 DEF OpenNamed
  <1>5. CASE SearchFails
    <2>1. next' = next /\ next <= next' /\ kmsfd' = kmsfd /\ ~named /\ pc' = "node_fails" /\ UNCHANGED <<fds, held>>
      BY <1>1, <1>5 DEF SearchFails
    <2>2. QED
      BY <1>1, <1>3, <2>1
  <1>6. CASE open_drm_node_udev
    <2>1. ~named /\ next <= Cards /\ next' = next + 1
      BY <1>6 DEF open_drm_node_udev
    <2>2. next \in 1..Cards /\ next' \in 1..Cards + 1 /\ next <= next' /\ next < next'
      BY <1>1, <2>1, BoundsAreNat
    <2>3. CASE cards[next] = "gone" /\ UNCHANGED <<pc, fds, held, kmsfd>>
      <3>1. \A i \in 1..(next' - 1) : i \in 1..(next - 1) \/ i = next
        BY <1>1, <2>1
      <3>2. \A i \in 1..(next' - 1) : i \in 1..(next - 1) \/ cards[i] = "gone"
        BY <2>3, <3>1
      <3>3. QED
        BY <1>1, <1>3, <2>1, <2>2, <2>3, <3>2
    <2>4. CASE kmsfd' = NoFd /\ UNCHANGED <<pc, fds, held>>
      BY <1>1, <1>3, <2>2, <2>4
    <2>5. CASE /\ cards[next] \in {"good", "poor"} /\ kmr_session_take_control_of_device(card(next))
               /\ kmsfd' = Lowest /\ pc' = (IF cards[next] = "good" THEN "setup" ELSE pc)
      <3>1. \A fd \in FDs : fds[fd] # card(next)
        <4>1. ~(next < next)
          BY <1>1
        <4>2. QED
          BY <1>2, <2>2, <4>1
      <3>2. QED
        BY <1>1, <2>1, <2>2, <2>5, <3>1, OpenCard
    <2>6. QED
      BY <1>6, <2>3, <2>4, <2>5 DEF open_drm_node_udev
  <1>7. QED
    BY <1>4, <1>5, <1>6

\* Main goes on, or gives up, with the node it has.
LEMMA MainStep ==
  ASSUME SeatInv, setup_atomic_modeset \/ kmr_input_create \/ Stop
                  \/ (kmr_drm_node_create_fails /\ build # "direct")
  PROVE  SeatInv'
  <1>0. SeatTypes /\ OneEach /\ StdInv /\ CardsInv /\ InputsInv /\ HeldInv
    BY DEF SeatInv
  <1>1. UNCHANGED <<build, named, cards, fds, held, inputfd, plugged, pending, removed, next, kmsfd>>
    BY DEF setup_atomic_modeset, kmr_input_create, Stop, kmr_drm_node_create_fails, config, inputs
  <1>2. /\ \/ pc = "setup" /\ pc' \in {"inputs", "node_fails"}
           \/ pc \in Using /\ pc' \in Using
           \/ pc = "node_fails" /\ pc' = "crashed"
        /\ pc' \in Using => kmsfd \in atomic'
    BY <1>0 DEF setup_atomic_modeset, kmr_input_create, Stop, kmr_drm_node_create_fails, CardsInv, Using
  <1>3. StdInv'
    BY <1>0, <1>1, <1>2 DEF StdInv, Using
  <1>4. CardsInv'
    BY <1>0, <1>1, <1>2 DEF CardsInv, Using
  <1>5. next' \in 1..Cards + 1 /\ pc' \in Locations /\ kmsfd' \in FDs \cup {NoFd}
    BY <1>0, <1>1, <1>2 DEF SeatTypes, Locations, Using
  <1>6. QED
    BY <1>1, <1>2, <1>3, <1>4, <1>5, MoveOn DEF Using

\* The node is closed, after libinput or because it could not be set up.
LEMMA NodeDestroyStep ==
  ASSUME SeatInv, kmr_drm_node_destroy \/ (kmr_drm_node_create_fails /\ build = "direct")
  PROVE  SeatInv'
  <1>0. SeatTypes /\ OneEach /\ StdInv /\ CardsInv /\ InputsInv /\ HeldInv
    BY DEF SeatInv
  <1>1. /\ UNCHANGED <<build, named, cards, next, kmsfd, inputfd, plugged, pending, removed>>
        /\ kmr_session_release_device(kmsfd) /\ pc' = "session_destroy"
        /\ pc \in {"input_destroy", "node_fails"} /\ (pc = "node_fails" => build = "direct")
        /\ \A d \in Inputs : inputfd[d] = NoFd
    BY <1>0 DEF kmr_drm_node_destroy, kmr_drm_node_create_fails, config, inputs, InputsInv, Using
  <1>2. kmsfd \in FDs \cup {NoFd} /\ build \in Builds
    BY <1>0 DEF SeatTypes
  <1>3. /\ fds' \in [FDs -> Things] /\ OneEach' /\ held' \in [Devices -> Nat]
        /\ \A x \in FDs : fds'[x] = IF x = kmsfd THEN free ELSE fds[x]
        /\ build = "logind" => HeldRight'
    BY <1>0, <1>1, <1>2, Released
  <1>4. SeatTypes'
    BY <1>0, <1>1, <1>3 DEF SeatTypes, Locations
  <1>5. StdInv'
    <2>1. \A fd \in FDs : fds'[fd] = std => fd = 0
      BY <1>0, <1>3, NamesDiffer DEF StdInv
    <2>2. fds[0] = std
      BY <1>0, <1>1 DEF StdInv
    <2>3. kmsfd # 0 => fds'[0] = std
      BY <1>3, <2>2, BoundsAreNat
    <2>4. kmsfd = 0 => /\ pc = "node_fails" /\ build = "direct" /\ ~named
                       /\ \A i \in 1..(next - 1) : cards[i] = "gone"
      BY <1>0, <1>1 DEF StdInv, Using
    <2>5. QED
      BY <1>1, <2>1, <2>3, <2>4 DEF StdInv, Using
  <1>6. CardsInv'
    <2>1. ASSUME NEW fd \in FDs, NEW k \in 1..Cards, fds'[fd] = card(k)
          PROVE  ~named /\ cards[k] = "poor"
      <3>1. fd # kmsfd /\ fds[fd] = card(k)
        BY <1>3, <2>1, NamesDiffer
      <3>2. QED
        BY <1>0, <3>1 DEF CardsInv
    <2>2. QED
      BY <1>1, <2>1 DEF CardsInv, Using
  <1>7. InputsInv'
    <2>1. \A fd \in FDs, d \in Inputs : fds'[fd] # input(d)
      BY <1>0, <1>1, <1>3, NamesDiffer, BoundsAreNat DEF InputsInv
    <2>2. QED
      BY <1>1, <2>1 DEF InputsInv
  <1>8. HeldInv'
    BY <1>1, <1>3 DEF HeldInv
  <1>9. QED
    BY <1>3, <1>4, <1>5, <1>6, <1>7, <1>8 DEF SeatInv

LEMMA SessionDestroyStep ==
  ASSUME SeatInv, kmr_session_destroy
  PROVE  SeatInv'
  <1>0. SeatTypes /\ OneEach /\ StdInv /\ CardsInv /\ InputsInv /\ HeldInv
    BY DEF SeatInv
  <1>1. /\ UNCHANGED <<build, named, cards, next, kmsfd, inputfd, plugged, pending, removed>>
        /\ pc = "session_destroy" /\ pc' = "ended"
        /\ fds' = [fd \in FDs |-> IF fds[fd] = seat THEN free ELSE fds[fd]]
        /\ held' = [d \in Devices |-> 0]
    BY DEF kmr_session_destroy, config, inputs
  <1>2. /\ fds \in [FDs -> Things] /\ fds' \in [FDs -> Things]
        /\ \A fd \in FDs : /\ fds'[fd] # free => fds[fd] = fds'[fd]
                           /\ fds'[fd] # seat
        /\ (fds'[0] = std <=> fds[0] = std)
    BY <1>0, <1>1, NamesDiffer, BoundsAreNat DEF SeatTypes, Things
  <1>3. SeatTypes'
    BY <1>0, <1>1, <1>2 DEF SeatTypes, Locations
  <1>4. OneEach'
    BY <1>0, <1>2 DEF OneEach
  <1>5. StdInv'
    BY <1>0, <1>1, <1>2, NamesDiffer DEF StdInv, Using
  <1>6. CardsInv'
    BY <1>0, <1>1, <1>2, NamesDiffer DEF CardsInv, Using
  <1>7. InputsInv'
    BY <1>0, <1>1, <1>2, NamesDiffer, BoundsAreNat DEF InputsInv, Using
  <1>8. HeldInv'
    BY <1>1 DEF HeldInv
  <1>9. QED
    BY <1>3, <1>4, <1>5, <1>6, <1>7, <1>8 DEF SeatInv

\* libinput opens a device that has appeared.
LEMMA AddedStep ==
  ASSUME SeatInv, NEW d \in Inputs, DeviceAdded(d)
  PROVE  SeatInv'
  <1>0. SeatTypes /\ OneEach /\ StdInv /\ CardsInv /\ InputsInv /\ HeldInv
    BY DEF SeatInv
  <1>1. /\ UNCHANGED <<build, named, cards, pc, next, kmsfd, atomic, plugged, removed>>
        /\ pc \in {"inputs", "loop"} /\ d \in pending /\ d \notin removed /\ pending' = pending \ {d}
    BY DEF DeviceAdded, config
  <1>2. CASE UNCHANGED <<fds, held, inputfd>>
    <2>1. SeatTypes' /\ OneEach' /\ HeldInv'
      BY <1>0, <1>1, <1>2 DEF SeatTypes, OneEach, HeldInv, HeldRight
    <2>2. StdInv' /\ CardsInv'
      BY <1>0, <1>1, <1>2 DEF StdInv, CardsInv
    <2>3. InputsInv'
      BY <1>0, <1>1, <1>2 DEF InputsInv
    <2>4. QED
      BY <2>1, <2>2, <2>3 DEF SeatInv
  <1>3. CASE d \in plugged /\ open_restricted(d)
    <2>1. kmr_session_take_control_of_device(input(d)) /\ inputfd' = [inputfd EXCEPT ![d] = Lowest]
      BY <1>3 DEF open_restricted
    <2>2. \A fd \in FDs : fds[fd] # input(d)
      <3>1. inputfd[d] = NoFd
        BY <1>0, <1>1 DEF InputsInv
      <3>2. QED
        BY <1>0, <3>1, BoundsAreNat DEF InputsInv
    <2>3. input(d) \in Devices /\ fds[0] = std /\ pc # "ended"
      BY <1>0, <1>1, NamesDiffer DEF StdInv
    <2>4. /\ Lowest \in FDs /\ Lowest # 0 /\ fds[Lowest] = free
          /\ fds' \in [FDs -> Things] /\ fds'[0] = std
          /\ \A x \in FDs : fds'[x] = IF x = Lowest THEN input(d) ELSE fds[x]
          /\ OneEach' /\ held' \in [Devices -> Nat]
          /\ build = "logind" => HeldRight'
      BY <1>0, <2>1, <2>2, <2>3, Taken
    <2>5. /\ inputfd' \in [Inputs -> FDs \cup {NoFd}]
          /\ \A e \in Inputs : inputfd'[e] = IF e = d THEN Lowest ELSE inputfd[e]
      BY <1>0, <2>1, <2>4 DEF SeatTypes
    <2>6. SeatTypes'
      BY <1>0, <1>1, <2>4, <2>5 DEF SeatTypes
    <2>7. StdInv'
      <3>1. \A fd \in FDs : fds'[fd] = std => fd = 0
        BY <1>0, <2>4, NamesDiffer DEF StdInv
      <3>2. QED
        BY <1>0, <1>1, <2>4, <3>1 DEF StdInv
    <2>8. CardsInv'
      <3>1. \A fd \in FDs, k \in 1..Cards : fds'[fd] = card(k) => fds[fd] = card(k)
        BY <2>4, NamesDiffer
      <3>2. kmsfd \in FDs /\ kmsfd # Lowest
        BY <1>0, <1>1, <2>4, NamesDiffer DEF CardsInv, Using
      <3>3. fds'[kmsfd] = fds[kmsfd]
        BY <2>4, <3>2
      <3>4. QED
        BY <1>0, <1>1, <3>1, <3>2, <3>3 DEF CardsInv, Using
    <2>9. InputsInv'
      <3>1. ASSUME NEW fd \in FDs, NEW e \in Inputs, fds'[fd] = input(e)
            PROVE  inputfd'[e] = fd
        BY <1>0, <2>2, <2>4, <2>5, <3>1, NamesDiffer DEF InputsInv
      <3>2. ASSUME NEW e \in Inputs, inputfd'[e] # NoFd
            PROVE  fds'[inputfd'[e]] = input(e)
        <4>1. CASE e = d
          BY <2>4, <2>5, <4>1
        <4>2. CASE e # d
          <5>1. inputfd'[e] = inputfd[e] /\ fds[inputfd[e]] = input(e) /\ inputfd[e] \in FDs
            BY <1>0, <2>5, <3>2, <4>2 DEF InputsInv, SeatTypes
          <5>2. inputfd[e] # Lowest
            BY <2>4, <5>1, NamesDiffer
          <5>3. QED
            BY <2>4, <5>1, <5>2
        <4>3. QED
          BY <4>1, <4>2
      <3>3. \A e \in Inputs : inputfd'[e] # NoFd => e \in removed \/ (e \in plugged /\ e \notin pending')
        BY <1>0, <1>1, <1>3, <2>5 DEF InputsInv
      <3>4. QED
        BY <1>1, <3>1, <3>2, <3>3 DEF InputsInv, Using
    <2>10. HeldInv'
      BY <1>1, <2>4 DEF HeldInv
    <2>11. QED
      BY <2>4, <2>6, <2>7, <2>8, <2>9, <2>10 DEF SeatInv
  <1>4. QED
    BY <1>2, <1>3 DEF DeviceAdded

\* libinput closes one, because it is gone or because main is done.
LEMMA ClosedStep ==
  ASSUME SeatInv, NEW d \in Inputs, DeviceRemoved(d) \/ kmr_input_destroy(d)
  PROVE  SeatInv'
  <1>0. SeatTypes /\ OneEach /\ StdInv /\ CardsInv /\ InputsInv /\ HeldInv
    BY DEF SeatInv
  <1>1. /\ UNCHANGED <<build, named, cards, pc, next, kmsfd, atomic, plugged, pending>>
        /\ pc \in Using /\ removed' \in {removed, removed \ {d}}
        /\ kmr_session_release_device(inputfd[d]) /\ inputfd' = [inputfd EXCEPT ![d] = NoFd]
    BY DEF DeviceRemoved, kmr_input_destroy, config, close_restricted, Using
  <1>2. inputfd[d] \in FDs \cup {NoFd} /\ pc # "ended"
    BY <1>0, <1>1 DEF SeatTypes, Using
  <1>3. /\ fds' \in [FDs -> Things] /\ OneEach' /\ held' \in [Devices -> Nat]
        /\ \A x \in FDs : fds'[x] = IF x = inputfd[d] THEN free ELSE fds[x]
        /\ build = "logind" => HeldRight'
    BY <1>0, <1>1, <1>2, Released
  <1>4. /\ inputfd' \in [Inputs -> FDs \cup {NoFd}]
        /\ \A e \in Inputs : inputfd'[e] = IF e = d THEN NoFd ELSE inputfd[e]
    BY <1>0, <1>1 DEF SeatTypes
  <1>5. SeatTypes'
    BY <1>0, <1>1, <1>3, <1>4 DEF SeatTypes
  <1>6. inputfd[d] \in FDs => fds[inputfd[d]] = input(d)
    BY <1>0, BoundsAreNat DEF InputsInv
  <1>7. StdInv'
    <2>1. fds[0] = std
      BY <1>0, <1>1 DEF StdInv, Using
    <2>2. fds'[0] = std
      BY <1>3, <1>6, <2>1, NamesDiffer, BoundsAreNat
    <2>3. \A fd \in FDs : fds'[fd] = std => fd = 0
      BY <1>0, <1>3, NamesDiffer DEF StdInv
    <2>4. QED
      BY <1>0, <1>1, <2>2, <2>3 DEF StdInv, Using
  <1>8. CardsInv'
    <2>1. \A fd \in FDs, k \in 1..Cards : fds'[fd] = card(k) => fds[fd] = card(k)
      BY <1>3, NamesDiffer
    <2>2. kmsfd \in FDs /\ kmsfd # inputfd[d]
      BY <1>0, <1>1, <1>6, NamesDiffer DEF CardsInv
    <2>3. fds'[kmsfd] = fds[kmsfd]
      BY <1>3, <2>2
    <2>4. QED
      BY <1>0, <1>1, <2>1, <2>2, <2>3 DEF CardsInv, Using
  <1>9. InputsInv'
    <2>1. ASSUME NEW fd \in FDs, NEW e \in Inputs, fds'[fd] = input(e)
          PROVE  inputfd'[e] = fd
      <3>1. fd # inputfd[d] /\ fds[fd] = input(e)
        BY <1>3, <2>1, NamesDiffer
      <3>2. inputfd[e] = fd
        BY <1>0, <3>1 DEF InputsInv
      <3>3. QED
        BY <1>4, <3>1, <3>2
    <2>2. ASSUME NEW e \in Inputs, inputfd'[e] # NoFd
          PROVE  fds'[inputfd'[e]] = input(e)
      <3>1. /\ e # d /\ inputfd'[e] = inputfd[e] /\ inputfd[e] \in FDs
            /\ fds[inputfd[e]] = input(e)
        BY <1>0, <1>4, <2>2 DEF InputsInv, SeatTypes
      <3>2. inputfd[e] # inputfd[d]
        BY <1>6, <3>1, NamesDiffer
      <3>3. QED
        BY <1>3, <3>1, <3>2
    <2>3. \A e \in Inputs : inputfd'[e] # NoFd => e \in removed' \/ (e \in plugged /\ e \notin pending)
      BY <1>0, <1>1, <1>4 DEF InputsInv
    <2>4. QED
      BY <1>1, <2>1, <2>2, <2>3 DEF InputsInv, Using
  <1>10. HeldInv'
    BY <1>1, <1>3 DEF HeldInv
  <1>11. QED
    BY <1>3, <1>5, <1>7, <1>8, <1>9, <1>10 DEF SeatInv

\* Devices come and go.
LEMMA PlugStep ==
  ASSUME SeatInv, NEW d \in Inputs, Plug(d) \/ Unplug(d)
  PROVE  SeatInv'
  <1>0. SeatTypes /\ OneEach /\ StdInv /\ CardsInv /\ InputsInv /\ HeldInv
    BY DEF SeatInv
  <1>1. UNCHANGED <<build, named, cards, pc, next, fds, held, kmsfd, atomic, inputfd>>
    BY DEF Plug, Unplug, config
  <1>2. plugged' \subseteq Inputs
    BY <1>0 DEF Plug, Unplug, SeatTypes
  <1>3. SeatTypes' /\ OneEach' /\ HeldInv'
    BY <1>0, <1>1, <1>2 DEF SeatTypes, OneEach, HeldInv, HeldRight
  <1>4. StdInv' /\ CardsInv'
    BY <1>0, <1>1 DEF StdInv, CardsInv
  <1>5. \A e \in Inputs : inputfd[e] # NoFd => e \in removed' \/ (e \in plugged' /\ e \notin pending')
    <2>1. CASE Plug(d)
      BY <1>0, <2>1 DEF InputsInv, Plug
    <2>2. CASE Unplug(d)
      BY <1>0, <2>2 DEF InputsInv, Unplug
    <2>3. QED
      BY <2>1, <2>2
  <1>6. InputsInv'
    BY <1>0, <1>1, <1>5 DEF InputsInv
  <1>7. QED
    BY <1>3, <1>4, <1>6 DEF SeatInv

LEMMA SeatStep == SeatInv /\ [Next]_vars => SeatInv'
  <1> SUFFICES ASSUME SeatInv, [Next]_vars PROVE SeatInv'
    OBVIOUS
  <1>1. CASE UNCHANGED vars
    <2>1. UNCHANGED <<build, named, cards, pc, next, fds, held, kmsfd, atomic, inputfd, plugged, pending, removed>>
      BY <1>1 DEF vars
    <2>2. SeatTypes' /\ OneEach' /\ HeldInv'
      BY <2>1 DEF SeatInv, SeatTypes, OneEach, HeldInv, HeldRight
    <2>3. StdInv' /\ CardsInv' /\ InputsInv'
      BY <2>1 DEF SeatInv, StdInv, CardsInv, InputsInv
    <2>4. QED
      BY <2>2, <2>3 DEF SeatInv
  <1>2. QED
    BY <1>1, SessionStep, NodeStep, MainStep, NodeDestroyStep, SessionDestroyStep,
       AddedStep, ClosedStep, PlugStep DEF Next

-----------------------------------------------------------------------------
\* Who holds which device under which number, in every reachable state.
THEOREM SeatInvariant == Spec => []SeatInv
  BY SeatInit, SeatStep, PTL DEF Spec

\* kmsfd and libinput's descriptors are open on the devices they were opened
\* for, with any number of cards and devices.
THEOREM NamesDevices == Spec => []DescriptorsNameDevices
  <1>1. SeatInv => DescriptorsNameDevices
    <2>1. SeatInv => /\ CardsInv /\ InputsInv
      BY DEF SeatInv
    <2>2. QED
      BY <2>1 DEF CardsInv, InputsInv, DescriptorsNameDevices, Using
  <1>2. QED
    BY <1>1, SeatInvariant, PTL

\* With logind the session holds what is open and nothing else.
THEOREM SessionHolds == Spec => []HeldWhileOpen
  <1>1. SeatInv => HeldWhileOpen
    BY DEF SeatInv, HeldInv, HeldRight, HeldWhileOpen
  <1>2. QED
    BY <1>1, SeatInvariant, PTL

\* What is open when the program has ended.
THEOREM ClosesAtEnd == Spec => []ClosedAtEnd
  <1>1. SeatInv => ClosedAtEnd
    <2> SUFFICES ASSUME SeatInv, pc = "ended" PROVE ClosedAtEnd
      BY DEF ClosedAtEnd
    <2>1. SeatTypes /\ StdInv /\ CardsInv /\ InputsInv
      BY DEF SeatInv
    <2>2. ASSUME NEW fd \in FDs \ {0}
          PROVE  fds[fd] = free \/ \E i \in 1..Cards : cards[i] = "poor" /\ ~named /\ fds[fd] = card(i)
      <3>1. fds[fd] \in Things /\ fds[fd] # std /\ fds[fd] # seat
        BY <2>1, <2>2 DEF SeatTypes, StdInv
      <3>2. \A d \in Inputs : fds[fd] # input(d)
        BY <2>1, <2>2, BoundsAreNat DEF InputsInv, Using
      <3>3. fds[fd] = free \/ \E i \in 1..Cards : fds[fd] = card(i)
        BY <3>1, <3>2, NamesDiffer DEF Things
      <3>4. QED
        BY <2>1, <2>2, <3>3 DEF CardsInv, Using
    <2>3. fds[0] = std \/ (build = "direct" /\ ~named /\ kmsfd = 0 /\ \A i \in 1..(next - 1) : cards[i] = "gone")
      BY <2>1 DEF StdInv
    <2>4. QED
      BY <2>2, <2>3 DEF ClosedAtEnd
  <1>2. QED
    BY <1>1, SeatInvariant, PTL
=============================================================================
