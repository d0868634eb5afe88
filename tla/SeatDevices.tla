----------------------------- MODULE SeatDevices -----------------------------
(***************************************************************************)
(* The devices a KMS program opens and closes: the DRM node                *)
(* (src/src/drm-node.c), the input devices libinput asks for               *)
(* (src/src/input.c) and the session that hands them out when the library  *)
(* is built with libseat (src/src/session.c).  Descriptors are small       *)
(* numbers that are used again, and the session has numbers of its own:    *)
(* libseat_open_device returns the number of the device, and               *)
(* kmr_session_take_control_of_device throws it away and passes the        *)
(* descriptor to libseat_close_device instead.  With logind the two are    *)
(* the same; with seatd they are not.                                      *)
(***************************************************************************)
EXTENDS Naturals, FiniteSetsExt

CONSTANTS
  Cards,   \* the number of graphics cards, which udev lists in order
  Inputs,  \* the input devices there may be
  Builds,  \* subset of {"direct", "logind", "seatd"}
  MaxFd    \* the highest descriptor, and number of a device with seatd

SeatAssumption ==
  /\ Cards \in Nat /\ IsFiniteSet(Inputs) /\ Builds \subseteq {"direct", "logind", "seatd"}
  /\ MaxFd \in Nat /\ MaxFd > 3 + Cards + Cardinality(Inputs)
ASSUME SeatAssumption

card(i)  == <<"card", i>>
input(d) == <<"input", d>>
Devices == {card(i) : i \in 1..Cards} \cup {input(d) : d \in Inputs}
std  == <<"std">>
free == <<"free">>
seat == <<"seat">>

\* Descriptors 1 and 2 play no part.  NoFd stands for -1.
FDs == {0} \cup 3..MaxFd
NoFd == MaxFd + 1

\* What a card is: usable, without a capability the library wants, not to be
\* opened, or without a device node.
CardKinds == {"good", "poor", "closed", "gone"}

VARIABLES
  build, named, cards,  \* what the program runs on: a DRM node is named, or searched
  pc,        \* where main is
  next,      \* the card udev_list_entry_foreach is at
  fds,       \* what each descriptor is open on
  held,      \* the session's number of each device it has handed out, or 0
  kmsfd,     \* kmsNode->kmsfd
  atomic,    \* the descriptors setup_atomic_modeset has worked on
  inputfd,   \* libinput's descriptor of each device
  plugged,   \* the input devices that are there
  pending,   \* those that libinput has not looked at since they appeared
  removed    \* those in use that have gone away
vars == <<build, named, cards, pc, next, fds, held, kmsfd, atomic, inputfd,
          plugged, pending, removed>>
config == <<build, named, cards>>
inputs == <<inputfd, plugged, pending, removed>>

Init ==
  /\ build \in Builds /\ named \in BOOLEAN
  /\ cards \in [1..Cards -> CardKinds]
  /\ pc = "session" /\ next = 1
  /\ fds = [fd \in FDs |-> IF fd = 0 THEN std ELSE free]
  /\ held = [d \in Devices |-> 0]
  /\ kmsfd = 0 /\ atomic = {}
  /\ inputfd = [d \in Inputs |-> NoFd]
  /\ plugged \in SUBSET Inputs /\ pending = plugged /\ removed = {}

Lowest == Min({fd \in FDs : fds[fd] = free})

\* The numbers the session may give a device.
Numbers ==
  CASE build = "direct" -> {0}
    [] build = "logind" -> {Lowest}
    [] build = "seatd"  -> (1..MaxFd) \ {held[d] : d \in Devices}

kmr_session_take_control_of_device(d) ==
  /\ fds' = [fds EXCEPT ![Lowest] = d]
  /\ \E number \in Numbers : held' = [held EXCEPT ![d] = number]

\* The device libseat_close_device finds under a number that is a descriptor:
\* logind looks at what the descriptor is open on.
Names(fd, d) ==
  CASE build = "direct" -> FALSE
    [] build = "logind" -> fds[fd] = d
    [] build = "seatd"  -> held[d] = fd

\* Mutant: closes the descriptor before it tells the session.
close_before_release(fd) ==
  IF fd \in FDs
  THEN fds' = [fds EXCEPT ![fd] = free] /\ UNCHANGED held
  ELSE UNCHANGED <<fds, held>>

\* close and libseat_close_device refuse -1.
kmr_session_release_device(fd) ==
  IF fd \in FDs
  THEN /\ held' = [d \in Devices |-> IF Names(fd, d) THEN 0 ELSE held[d]]
       /\ fds' = [fds EXCEPT ![fd] = free]
  ELSE UNCHANGED <<fds, held>>

-----------------------------------------------------------------------------
(* The session and the DRM node.                                           *)

kmr_session_create ==
  /\ pc = "session"
  /\ \/ pc' = "node" /\ fds' = IF build = "direct" THEN fds ELSE [fds EXCEPT ![Lowest] = seat]
     \/ build # "direct" /\ pc' = "ended" /\ UNCHANGED fds
  /\ UNCHANGED <<config, next, held, kmsfd, atomic, inputs>>

\* A node that is named: open_drm_node.
OpenNamed ==
  /\ pc = "node" /\ named
  /\ \/ /\ Cards > 0 /\ cards[1] \in {"good", "poor"}
        /\ kmr_session_take_control_of_device(card(1))
        /\ kmsfd' = Lowest /\ pc' = "setup"
     \/ /\ kmsfd' = NoFd /\ pc' = "node_fails"
        /\ UNCHANGED <<fds, held>>
  /\ UNCHANGED <<config, next, atomic, inputs>>

\* udev cannot be asked, or has listed the last card.
SearchFails ==
  /\ pc = "node" /\ ~named /\ (next = 1 \/ next > Cards)
  /\ pc' = "node_fails"
  /\ UNCHANGED <<config, next, fds, held, kmsfd, atomic, inputs>>

\* Mutant: a card is taken without a look at what it can do.
open_drm_node_udev_any ==
  /\ pc = "node" /\ ~named /\ next <= Cards
  /\ next' = next + 1
  /\ kmr_session_take_control_of_device(card(next)) /\ kmsfd' = Lowest
  /\ pc' = "setup"
  /\ UNCHANGED <<config, atomic, inputs>>

\* One turn of udev_list_entry_foreach.  A card that lacks something stays
\* open, and kmsfd stays what it is.
open_drm_node_udev ==
  /\ pc = "node" /\ ~named /\ next <= Cards
  /\ next' = next + 1
  /\ \/ /\ cards[next] = "gone"
        /\ UNCHANGED <<pc, fds, held, kmsfd>>
     \/ /\ cards[next] # "gone"
        /\ kmsfd' = NoFd
        /\ UNCHANGED <<pc, fds, held>>
     \/ /\ cards[next] \in {"good", "poor"}
        /\ kmr_session_take_control_of_device(card(next))
        /\ kmsfd' = Lowest
        /\ pc' = IF cards[next] = "good" THEN "setup" ELSE pc
  /\ UNCHANGED <<config, atomic, inputs>>

setup_atomic_modeset ==
  /\ pc = "setup"
  /\ \/ pc' = "inputs" /\ atomic' = atomic \cup {kmsfd}
     \/ pc' = "node_fails" /\ UNCHANGED atomic
  /\ UNCHANGED <<config, next, fds, held, kmsfd, inputs>>

\* Mutant: the node is forgotten.
node_create_forgets ==
  /\ pc = "node_fails"
  /\ pc' = "session_destroy"
  /\ UNCHANGED <<config, next, fds, held, kmsfd, atomic, inputs>>

\* exit_error_kms_node_create calls kmr_drm_node_destroy, which reads the
\* session of a node that has been given none so far.
kmr_drm_node_create_fails ==
  /\ pc = "node_fails"
  /\ IF build = "direct"
     THEN kmr_session_release_device(kmsfd) /\ pc' = "session_destroy"
     ELSE pc' = "crashed" /\ UNCHANGED <<fds, held>>
  /\ UNCHANGED <<config, next, kmsfd, atomic, inputs>>

-----------------------------------------------------------------------------
(* libinput, which opens and closes by the two functions it was given.     *)

open_restricted(d) ==
  /\ kmr_session_take_control_of_device(input(d))
  /\ inputfd' = [inputfd EXCEPT ![d] = Lowest]

close_restricted(d) ==
  /\ kmr_session_release_device(inputfd[d])
  /\ inputfd' = [inputfd EXCEPT ![d] = NoFd]

\* A device that has appeared is opened, unless it is gone again or may not
\* be: one after the other when the seat is assigned, later one for an event.
DeviceAdded(d) ==
  /\ pc \in {"inputs", "loop"} /\ d \in pending \ removed
  /\ \/ d \in plugged /\ open_restricted(d)
     \/ UNCHANGED <<fds, held, inputfd>>
  /\ pending' = pending \ {d}
  /\ UNCHANGED <<config, pc, next, kmsfd, atomic, plugged, removed>>

DeviceRemoved(d) ==
  /\ pc = "loop" /\ d \in removed
  /\ close_restricted(d)
  /\ removed' = removed \ {d}
  /\ UNCHANGED <<config, pc, next, kmsfd, atomic, plugged, pending>>

\* The outside world.
Plug(d) ==
  /\ pc \in {"inputs", "loop"} /\ d \notin plugged
  /\ plugged' = plugged \cup {d} /\ pending' = pending \cup {d}
  /\ UNCHANGED <<config, pc, next, fds, held, kmsfd, atomic, inputfd, removed>>

Unplug(d) ==
  /\ pc \in {"inputs", "loop"} /\ d \in plugged
  /\ plugged' = plugged \ {d}
  /\ removed' = IF inputfd[d] # NoFd THEN removed \cup {d} ELSE removed
  /\ UNCHANGED <<config, pc, next, fds, held, kmsfd, atomic, inputfd, pending>>

\* kmr_input_create returns when every device has been looked at.
kmr_input_create ==
  /\ pc = "inputs" /\ pending \ removed = {}
  /\ pc' = "loop"
  /\ UNCHANGED <<config, next, fds, held, kmsfd, atomic, inputs>>

-----------------------------------------------------------------------------
(* The end: main is asked to stop, or something it creates after the DRM   *)
(* node fails, libinput among it.  libinput_unref closes what is open.     *)

Stop ==
  /\ pc \in {"inputs", "loop"}
  /\ pc' = "input_destroy"
  /\ UNCHANGED <<config, next, fds, held, kmsfd, atomic, inputs>>

kmr_input_destroy(d) ==
  /\ pc = "input_destroy" /\ inputfd[d] # NoFd
  /\ close_restricted(d)
  /\ UNCHANGED <<config, pc, next, kmsfd, atomic, plugged, pending, removed>>

kmr_drm_node_destroy ==
  /\ pc = "input_destroy" /\ \A d \in Inputs : inputfd[d] = NoFd
  /\ kmr_session_release_device(kmsfd)
  /\ pc' = "session_destroy"
  /\ UNCHANGED <<config, next, kmsfd, atomic, inputs>>

\* The session forgets the devices it has handed out.
kmr_session_destroy ==
  /\ pc = "session_destroy"
  /\ pc' = "ended"
  /\ fds' = [fd \in FDs |-> IF fds[fd] = seat THEN free ELSE fds[fd]]
  /\ held' = [d \in Devices |-> 0]
  /\ UNCHANGED <<config, next, kmsfd, atomic, inputs>>

Next ==
  \/ kmr_session_create \/ OpenNamed \/ SearchFails \/ open_drm_node_udev
  \/ setup_atomic_modeset \/ kmr_drm_node_create_fails \/ kmr_input_create
  \/ \E d \in Inputs :
       DeviceAdded(d) \/ DeviceRemoved(d) \/ Plug(d) \/ Unplug(d) \/ kmr_input_destroy(d)
  \/ Stop \/ kmr_drm_node_destroy \/ kmr_session_destroy

Spec == Init /\ [][Next]_vars

-----------------------------------------------------------------------------
(* Properties.                                                             *)

\* From the time kmr_drm_node_create returns until the node is destroyed,
\* kmsfd is open on one and the same card, the one that was named or one with
\* the capabilities, set up for atomic commits; and libinput's descriptors
\* are open on its devices.  No order of failing opens, rejected cards, input
\* devices that come and go and descriptors that are used again breaks it.
DescriptorsNameDevices ==
  /\ pc \in {"inputs", "loop", "input_destroy"} =>
       /\ kmsfd \in atomic
       /\ \E i \in 1..Cards :
            fds[kmsfd] = card(i) /\ IF named THEN i = 1 ELSE cards[i] = "good"
  /\ \A d \in Inputs : inputfd[d] # NoFd => fds[inputfd[d]] = input(d)

\* With logind the session has handed out exactly the devices that are open
\* here: releasing one never takes another away, nor leaves one behind.
HeldWhileOpen ==
  build = "logind" /\ pc # "ended" =>
    \A d \in Devices : held[d] # 0 <=> \E fd \in FDs : fds[fd] = d

\* A program that ends leaves nothing open but the cards the search has
\* passed over, and the descriptors it did not open alone: but for standard
\* input, when the search ends before it has tried to open a card, for then
\* kmsfd is still the 0 of calloc.
ClosedAtEnd ==
  pc = "ended" =>
    /\ \A fd \in FDs \ {0} :
         fds[fd] = free \/ \E i \in 1..Cards : cards[i] = "poor" /\ ~named /\ fds[fd] = card(i)
    /\ fds[0] = std \/ (build = "direct" /\ ~named /\ kmsfd = 0 /\ \A i \in 1..(next - 1) : cards[i] = "gone")
=============================================================================
