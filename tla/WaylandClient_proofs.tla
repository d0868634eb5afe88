------------------------- MODULE WaylandClient_proofs -------------------------
(***************************************************************************)
(* For any number of configure events: no buffer reaches the surface       *)
(* before the first is acknowledged, and there is a chain of frame         *)
(* callbacks for each.  Both follow from counting events: what is on its   *)
(* way, being dispatched or handled adds up.  From the same counts: main   *)
(* never waits in vain, and a signal leaves only so many steps to the end. *)
(***************************************************************************)
EXTENDS WaylandClient, FiniteSetTheorems, FunctionTheorems, TLAPS

-----------------------------------------------------------------------------
(* Sequences and the number of times an event occurs in one.               *)

Occurs(event, seq) == {k \in DOMAIN seq : seq[k] = event}

LEMMA OccursFinite ==
  ASSUME NEW S, NEW s \in Seq(S), NEW e
  PROVE  /\ IsFiniteSet(Occurs(e, s))
         /\ Count(e, s) = Cardinality(Occurs(e, s)) /\ Count(e, s) \in Nat
         /\ Occurs(e, s) \subseteq 1 .. Len(s) /\ Len(s) \in Nat
  <1>1. Len(s) \in Nat /\ DOMAIN s = 1 .. Len(s)
    OBVIOUS
  <1>2. IsFiniteSet(1 .. Len(s))
    BY <1>1, FS_Interval
  <1>3. Occurs(e, s) \in SUBSET (1 .. Len(s))
    BY <1>1 DEF Occurs
  <1>4. IsFiniteSet(Occurs(e, s))
    BY <1>2, <1>3, FS_Subset
  <1>5. Cardinality(Occurs(e, s)) \in Nat
    BY <1>4, FS_CardinalityType
  <1>6. QED
    BY <1>1, <1>3, <1>4, <1>5 DEF Count, Occurs

LEMMA CountEmpty ==
  ASSUME NEW e
  PROVE  Count(e, <<>>) = 0
  <1>1. {k \in DOMAIN <<>> : <<>>[k] = e} = {}
    OBVIOUS
  <1>2. QED
    BY <1>1, FS_EmptySet DEF Count

LEMMA CountAppend ==
  ASSUME NEW S, NEW s \in Seq(S), NEW x \in S, NEW e
  PROVE  Count(e, Append(s, x)) = Count(e, s) + (IF x = e THEN 1 ELSE 0)
  <1>1. /\ DOMAIN s = 1 .. Len(s) /\ Len(s) \in Nat
        /\ DOMAIN Append(s, x) = 1 .. Len(s) + 1
        /\ \A k \in 1 .. Len(s) : Append(s, x)[k] = s[k]
        /\ Append(s, x)[Len(s) + 1] = x
    OBVIOUS
  <1>2. Len(s) + 1 \notin Occurs(e, s)
    BY OccursFinite
  <1>3. Occurs(e, Append(s, x)) = Occurs(e, s) \cup (IF x = e THEN {Len(s) + 1} ELSE {})
    BY <1>1 DEF Occurs
  <1>4. IsFiniteSet(Occurs(e, s)) /\ Count(e, s) = Cardinality(Occurs(e, s)) /\ Count(e, s) \in Nat
    BY OccursFinite
  <1>5. CASE x = e
    <2>1. Cardinality(Occurs(e, s) \cup {Len(s) + 1}) = Cardinality(Occurs(e, s)) + 1
      BY <1>2, <1>4, FS_AddElement
    <2>2. QED
      BY <1>3, <1>4, <1>5, <2>1 DEF Count, Occurs
  <1>6. CASE x # e
    <2>1. Occurs(e, Append(s, x)) = Occurs(e, s)
      BY <1>3, <1>6
    <2>2. Count(e, Append(s, x)) = Count(e, s)
      BY <2>1 DEF Count, Occurs
    <2>3. QED
      BY <1>4, <1>6, <2>2
  <1>7. QED
    BY <1>5, <1>6

LEMMA CountTail ==
  ASSUME NEW S, NEW s \in Seq(S), s # <<>>, NEW e
  PROVE  Count(e, s) = Count(e, Tail(s)) + (IF Head(s) = e THEN 1 ELSE 0)
  <1>1. /\ DOMAIN s = 1 .. Len(s) /\ Len(s) \in Nat /\ Len(s) > 0
        /\ Tail(s) \in Seq(S) /\ DOMAIN Tail(s) = 1 .. Len(s) - 1
        /\ \A k \in 1 .. Len(s) - 1 : Tail(s)[k] = s[k + 1]
        /\ Head(s) = s[1]
    OBVIOUS
  <1> DEFINE A == Occurs(e, Tail(s))
             B == Occurs(e, s) \ {1}
             f == [k \in A |-> k + 1]
  <1>2. IsFiniteSet(A) /\ Count(e, Tail(s)) = Cardinality(A) /\ Cardinality(A) \in Nat
    BY <1>1, OccursFinite
  <1>3. IsFiniteSet(Occurs(e, s)) /\ Count(e, s) = Cardinality(Occurs(e, s)) /\ Count(e, s) \in Nat
    BY OccursFinite
  <1>4. f \in Bijection(A, B)
    <2>1. \A k \in A : k \in Nat /\ k + 1 \in B
      BY <1>1 DEF Occurs
    <2>2. \A m \in B : m - 1 \in A /\ (m - 1) + 1 = m
      BY <1>1 DEF Occurs
    <2>3. f \in [A -> B] /\ \A k, l \in A : f[k] = f[l] => k = l
      BY <2>1
    <2>4. \A m \in B : \E k \in A : f[k] = m
      BY <2>2
    <2> HIDE DEF f, A, B
    <2>5. QED
      BY <2>3, <2>4, Fun_IsBij DEF Bijection, Injection, Surjection, IsInjective
  <1>5. Cardinality(B) = Cardinality(A)
    BY <1>2, <1>4, FS_Bijection DEF ExistsBijection
  <1>6. 1 \in Occurs(e, s) <=> Head(s) = e
    BY <1>1 DEF Occurs
  <1>7. Cardinality(B) = IF 1 \in Occurs(e, s) THEN Cardinality(Occurs(e, s)) - 1 ELSE Cardinality(Occurs(e, s))
    BY <1>3, FS_RemoveElement
  <1> HIDE DEF A, B, f
  <1>8. QED
    BY <1>2, <1>3, <1>5, <1>6, <1>7

-----------------------------------------------------------------------------
(* The invariant.                                                          *)

ClientTypes ==
  /\ info \in [shm : BOOLEAN, fullscreen : BOOLEAN]
  /\ step \in {"connect", "buffers", "surface", "loop", "dispatch", "cleanup", "return", "crashed"}
  /\ globals \subseteq Globals
  /\ made \in 0 .. BufferCount /\ (step \in {"connect", "buffers"} => made < BufferCount)
  /\ held \subseteq {"core", "shmBuffers", "surface"}
  /\ step = "connect" => held = {}
  /\ step = "return" => held \subseteq {"shmBuffers"}
  /\ cbuf = 0

EventTypes ==
  /\ batch \in Seq(Events) /\ sent \in Seq(Events)
  /\ requested \in Nat /\ configures \in Nat /\ toSend \in Nat
  /\ step # "dispatch" => batch = <<>>

\* The frame callbacks asked for, and the events that answer one.
Chains == requested + Count("done", batch) + Count("done", sent)

\* The configure events that may still be handled.
Configuring == toSend + Count("configure", batch) + Count("configure", sent)

\* The compositor configures xdg surfaces only.
Budget == IF "xdgWmBase" \in globals /\ ~UsesShell THEN MaxConfigures ELSE 0

CountInv ==
  /\ step \notin {"loop", "dispatch", "cleanup", "return"} =>
       /\ configures = 0 /\ requested = 0 /\ toSend = 0 /\ sent = <<>>
  /\ step \in {"loop", "dispatch"} => Chains = configures /\ configures + Configuring = Budget
  /\ configures + Configuring <= Budget
  /\ requested <= configures

\* Before the first event is acknowledged no callback has been asked for.
OrderInv ==
  /\ step \in {"loop", "dispatch"} => waitForConfigure
  /\ attached => configures > 0
  /\ ~early
  /\ ackPending => configures = 0

ClientInv == ClientTypes /\ EventTypes /\ CountInv /\ OrderInv

LEMMA InvInit == Init => ClientInv
  <1> SUFFICES ASSUME Init PROVE ClientInv
    OBVIOUS
  <1>1. Count("done", <<>>) = 0 /\ Count("configure", <<>>) = 0
    BY CountEmpty
  <1>2. Budget \in Nat
    BY ClientAssumption DEF Budget
  <1>3. ClientTypes /\ EventTypes /\ OrderInv
    BY ClientAssumption DEF Init, ClientTypes, EventTypes, OrderInv
  <1>4. CountInv
    BY <1>1, <1>2 DEF Init, CountInv, Chains, Configuring
  <1>5. QED
    BY <1>3, <1>4 DEF ClientInv

LEMMA CountsAreNat ==
  ASSUME EventTypes
  PROVE  /\ Count("done", batch) \in Nat /\ Count("done", sent) \in Nat
         /\ Count("configure", batch) \in Nat /\ Count("configure", sent) \in Nat
         /\ Budget \in Nat
         /\ Count("done", <<>>) = 0 /\ Count("configure", <<>>) = 0
  BY OccursFinite, CountEmpty, ClientAssumption DEF EventTypes, Budget

\* Steps of main outside the loop, and those that send nothing.
LEMMA SetupStep ==
  ASSUME ClientInv, \/ kmr_wc_core_create \/ kmr_wc_core_create_fails
                    \/ kmr_wc_buffer_create \/ kmr_wc_buffer_create_fails
                    \/ kmr_wc_surface_create \/ kmr_wc_surface_create_fails
  PROVE  ClientInv'
  <1> USE DEF client, loop, surface
  <1>0. ClientTypes /\ EventTypes /\ CountInv /\ OrderInv
    BY DEF ClientInv
  <1>1. /\ UNCHANGED <<info, sent, batch, requested, configures, ackPending, attached, early, cbuf>>
        /\ step \in {"connect", "buffers", "surface"} /\ batch = <<>> /\ sent = <<>>
        /\ configures = 0 /\ requested = 0 /\ toSend = 0
        /\ step' \notin {"connect", "dispatch"}
    <2>1. step \in {"connect", "buffers", "surface"} /\ step' \notin {"connect", "dispatch"}
      BY DEF kmr_wc_core_create, kmr_wc_core_create_fails, kmr_wc_buffer_create,
             kmr_wc_buffer_create_fails, kmr_wc_surface_create, kmr_wc_surface_create_fails
    <2>2. UNCHANGED <<info, sent, batch, requested, configures, ackPending, attached, early, cbuf>>
      BY DEF kmr_wc_core_create, kmr_wc_core_create_fails, kmr_wc_buffer_create,
             kmr_wc_buffer_create_fails, kmr_wc_surface_create, kmr_wc_surface_create_fails
    <2>3. QED
      BY <1>0, <2>1, <2>2 DEF EventTypes, CountInv
  <1>2. ClientTypes'
    <2>1. CASE kmr_wc_core_create_fails \/ kmr_wc_buffer_create_fails \/ kmr_wc_surface_create_fails
      BY <1>0, <1>1, <2>1 DEF ClientTypes, kmr_wc_core_create_fails, kmr_wc_buffer_create_fails,
         kmr_wc_surface_create_fails
    <2>2. CASE kmr_wc_core_create
      BY <1>0, <1>1, <2>2, ClientAssumption DEF ClientTypes, kmr_wc_core_create
    <2>3. CASE kmr_wc_buffer_create
      <3>1. made \in Nat /\ made < BufferCount /\ BufferCount \in Nat /\ made' = made + 1
        BY <1>0, <2>3, ClientAssumption DEF ClientTypes, kmr_wc_buffer_create
      <3>2. /\ made' \in 0 .. BufferCount
            /\ step' \in {"connect", "buffers"} => made' < BufferCount
        BY <3>1, <2>3 DEF kmr_wc_buffer_create
      <3>3. QED
        BY <1>0, <1>1, <2>3, <3>2 DEF ClientTypes, kmr_wc_buffer_create
    <2>4. CASE kmr_wc_surface_create
      BY <1>0, <1>1, <2>4 DEF ClientTypes, kmr_wc_surface_create
    <2>5. QED
      BY <2>1, <2>2, <2>3, <2>4
  <1>3. /\ toSend' \in Nat /\ toSend' <= Budget' /\ Budget' \in Nat
        /\ step' \notin {"loop", "cleanup"} => toSend' = 0
        /\ step' = "loop" => toSend' = Budget'
    <2>1. MaxConfigures \in Nat
      BY ClientAssumption
    <2>2. CASE kmr_wc_surface_create
      <3>1. info' = info /\ globals' = globals
        BY <2>2 DEF kmr_wc_surface_create
      <3>2. Budget' = Budget
        BY <3>1 DEF Budget, UsesShell
      <3>3. CASE step' = "loop"
        <4>1. toSend' = Budget
          BY <2>2, <3>3 DEF kmr_wc_surface_create, Budget
        <4>2. QED
          BY <2>1, <3>2, <3>3, <4>1 DEF Budget
      <3>4. CASE step' # "loop"
        <4>1. toSend' = toSend
          BY <2>2, <3>4 DEF kmr_wc_surface_create
        <4>2. QED
          BY <1>1, <2>1, <3>2, <3>4, <4>1 DEF Budget
      <3>5. QED
        BY <3>3, <3>4
    <2>3. CASE ~kmr_wc_surface_create
      <3>1. toSend' = toSend /\ step' # "loop"
        BY <2>3 DEF kmr_wc_core_create, kmr_wc_core_create_fails, kmr_wc_buffer_create,
           kmr_wc_buffer_create_fails, kmr_wc_surface_create_fails
      <3>2. QED
        BY <1>1, <2>1, <3>1 DEF Budget
    <2>4. QED
      BY <2>2, <2>3
  <1>4. EventTypes'
    BY <1>0, <1>1, <1>3 DEF EventTypes
  <1>5. step' = "loop" => waitForConfigure'
    BY DEF kmr_wc_core_create, kmr_wc_core_create_fails, kmr_wc_buffer_create,
           kmr_wc_buffer_create_fails, kmr_wc_surface_create, kmr_wc_surface_create_fails
  <1>6. OrderInv'
    BY <1>0, <1>1, <1>5 DEF OrderInv
  <1>7. Count("done", batch') = 0 /\ Count("done", sent') = 0
        /\ Count("configure", batch') = 0 /\ Count("configure", sent') = 0
    BY <1>1, CountEmpty
  <1>8. CountInv'
    BY <1>1, <1>3, <1>7 DEF CountInv, Chains, Configuring
  <1>9. QED
    BY <1>2, <1>4, <1>6, <1>8 DEF ClientInv

LEMMA LoopStep ==
  ASSUME ClientInv, Cleanup \/ DispatchStarts \/ DispatchEnds \/ DispatchFails
  PROVE  ClientInv'
  <1> USE DEF ClientInv, client, loop, surface
  <1>1. /\ UNCHANGED <<info, globals, made, waitForConfigure, cbuf, requested, configures, ackPending,
                       attached, early>>
        /\ Budget' = Budget
    BY DEF Cleanup, DispatchStarts, DispatchEnds, DispatchFails, Budget, UsesShell
  <1>2. ClientTypes'
    BY <1>1 DEF ClientTypes, Cleanup, DispatchStarts, DispatchEnds, DispatchFails
  <1>3. EventTypes' /\ OrderInv'
    BY <1>1 DEF EventTypes, OrderInv, Cleanup, DispatchStarts, DispatchEnds, DispatchFails
  <1>4. \/ batch' = batch /\ sent' = sent /\ toSend' = toSend
        \/ batch = <<>> /\ batch' = sent /\ sent' = <<>> /\ toSend' = toSend
        \/ batch' = batch /\ sent' = <<>> /\ toSend' = 0 /\ step' = "return"
    BY DEF Cleanup, DispatchStarts, DispatchEnds, DispatchFails
  <1>5. /\ step \in {"loop", "dispatch", "cleanup"} /\ step' \in {"loop", "dispatch", "cleanup", "return"}
        /\ step = "cleanup" => step' = "return"
    BY DEF Cleanup, DispatchStarts, DispatchEnds, DispatchFails
  <1>6. CountInv'
    BY <1>1, <1>4, <1>5, CountsAreNat DEF CountInv, Chains, Configuring, EventTypes
  <1>7. QED
    BY <1>2, <1>3, <1>6

\* The three handlers.  A frame callback that is answered is asked for again.
LEMMA HandlerStep ==
  ASSUME ClientInv,
         xdg_surface_handle_configure \/ drawframe \/ xdg_toplevel_handle_close
  PROVE  ClientInv'
  <1> USE DEF client, loop, surface
  <1>0. ClientTypes /\ EventTypes /\ CountInv /\ OrderInv
    BY DEF ClientInv
  <1>1. /\ UNCHANGED <<info, globals, made, held, step, waitForConfigure, cbuf, sent, toSend>>
        /\ step = "dispatch" /\ batch # <<>> /\ batch' = Tail(batch)
    BY DEF xdg_surface_handle_configure, drawframe, xdg_toplevel_handle_close, Handle, Renders
  <1>2. Budget' = Budget
    BY <1>1 DEF Budget, UsesShell
  <1>3. /\ Tail(batch) \in Seq(Events)
        /\ Count("done", batch) = Count("done", Tail(batch)) + (IF Head(batch) = "done" THEN 1 ELSE 0)
        /\ Count("configure", batch)
             = Count("configure", Tail(batch)) + (IF Head(batch) = "configure" THEN 1 ELSE 0)
        /\ Count("done", Tail(batch)) \in Nat /\ Count("configure", Tail(batch)) \in Nat
    <2>1. batch \in Seq(Events) /\ Tail(batch) \in Seq(Events)
      BY <1>0, <1>1 DEF EventTypes
    <2>2. QED
      BY <1>1, <2>1, CountTail, OccursFinite
  <1>4. ClientTypes'
    BY <1>0, <1>1 DEF ClientTypes
  <1>5. waitForConfigure' /\ ~early
    BY <1>0, <1>1 DEF OrderInv
  <1>6. /\ requested + Count("done", batch) + Count("done", sent) = configures
        /\ configures + (toSend + Count("configure", batch) + Count("configure", sent)) = Budget
        /\ requested \in Nat /\ configures \in Nat /\ toSend \in Nat /\ Budget \in Nat
        /\ Count("done", sent) \in Nat /\ Count("configure", sent) \in Nat
        /\ requested <= configures
    BY <1>0, <1>1, CountsAreNat DEF CountInv, EventTypes, Chains, Configuring
  \* What is left to show: the sums, with the batch one event shorter.
  <1>7. ASSUME requested' \in Nat, configures' \in Nat, requested' <= configures',
               requested' + Count("done", Tail(batch)) + Count("done", sent) = configures',
               configures' + (toSend + Count("configure", Tail(batch)) + Count("configure", sent)) = Budget,
               attached' => configures' > 0, ~early', ackPending' => configures' = 0
        PROVE  ClientInv'
    <2>1. EventTypes'
      BY <1>0, <1>1, <1>3, <1>7 DEF EventTypes
    <2>2. Chains' = configures' /\ (configures + Configuring)' = Budget'
      BY <1>1, <1>2, <1>7 DEF Chains, Configuring
    <2>3. CountInv'
      BY <1>1, <1>2, <1>6, <1>7, <2>2 DEF CountInv
    <2>4. OrderInv'
      BY <1>5, <1>7 DEF OrderInv
    <2>5. QED
      BY <1>4, <2>1, <2>3, <2>4 DEF ClientInv
  <1>8. CASE xdg_surface_handle_configure
    <2>1. waitForConfigure
      BY <1>1, <1>5
    <2>2. Head(batch) = "configure" /\ configures' = configures + 1 /\ requested' = requested + 1
      BY <2>1, <1>8 DEF xdg_surface_handle_configure, Handle, Renders
    <2>3. /\ ackPending' = FALSE /\ early' = (early \/ ackPending')
      BY <2>1, <1>8 DEF xdg_surface_handle_configure, Handle, Renders
    <2>4. ~early' /\ ~ackPending'
      BY <1>5, <2>3
    <2>5. configures' > 0 /\ configures' \in Nat /\ requested' \in Nat /\ requested' <= configures'
      BY <1>6, <2>2
    <2> HIDE DEF client, loop, surface
    <2>6. /\ Count("done", batch) = Count("done", Tail(batch))
          /\ Count("configure", batch) = Count("configure", Tail(batch)) + 1
          /\ Count("done", Tail(batch)) \in Nat /\ Count("configure", Tail(batch)) \in Nat
      BY <1>3, <2>2
    <2>7. requested' + Count("done", Tail(batch)) + Count("done", sent) = configures'
      BY <1>6, <2>6, <2>2
    <2>8. configures' + (toSend + Count("configure", Tail(batch)) + Count("configure", sent)) = Budget
      BY <1>6, <2>6, <2>2
    <2>9. QED
      BY <1>7, <2>4, <2>5, <2>7, <2>8
  <1>9. CASE drawframe
    <2>1. /\ Head(batch) = "done" /\ configures' = configures /\ requested' = requested + 1
          /\ ackPending' = ackPending /\ early' = (early \/ ackPending)
      BY <1>9 DEF drawframe, Handle, Renders
    <2>2. /\ configures' > 0 /\ configures' \in Nat /\ requested' \in Nat
          /\ requested' <= configures' /\ configures # 0
      BY <1>3, <1>6, <2>1
    <2>3. ~ackPending
      BY <1>0, <2>2 DEF OrderInv
    <2>4. ~early' /\ ~ackPending'
      BY <1>5, <2>1, <2>3
    <2>5. /\ Count("done", batch) = Count("done", Tail(batch)) + 1
          /\ Count("configure", batch) = Count("configure", Tail(batch))
      BY <1>3, <2>1
    <2>6. requested' + Count("done", Tail(batch)) + Count("done", sent) = configures'
      BY <1>3, <1>6, <2>5, <2>1
    <2>7. configures' + (toSend + Count("configure", Tail(batch)) + Count("configure", sent)) = Budget
      BY <1>3, <1>6, <2>5, <2>1
    <2>8. QED
      BY <1>7, <2>2, <2>4, <2>6, <2>7
  <1>10. CASE xdg_toplevel_handle_close
    <2>1. /\ Head(batch) = "close"
          /\ UNCHANGED <<requested, configures, ackPending, attached, early>>
      BY <1>10 DEF xdg_toplevel_handle_close, Handle
    <2>2. ~early' /\ (attached' => configures' > 0) /\ (ackPending' => configures' = 0)
      BY <1>0, <2>1 DEF OrderInv
    <2>3. requested' + Count("done", Tail(batch)) + Count("done", sent) = configures'
      BY <1>3, <1>6, <2>1
    <2>4. configures' + (toSend + Count("configure", Tail(batch)) + Count("configure", sent)) = Budget
      BY <1>3, <1>6, <2>1
    <2>5. QED
      BY <1>6, <1>7, <2>1, <2>2, <2>3, <2>4
  <1>11. QED
    BY <1>8, <1>9, <1>10

\* What the compositor sends it takes from what it has to send or to answer.
LEMMA CompositorStep ==
  ASSUME ClientInv, SendConfigure \/ SendDone \/ CloseWindow
  PROVE  ClientInv'
  <1> USE DEF client, loop, surface
  <1>0. ClientTypes /\ EventTypes /\ CountInv /\ OrderInv
    BY DEF ClientInv
  <1>1. /\ UNCHANGED <<info, globals, made, held, step, waitForConfigure, cbuf, batch, configures,
                       ackPending, attached, early>>
        /\ step \in {"loop", "dispatch"}
    BY DEF SendConfigure, SendDone, CloseWindow, InLoop
  <1>2. Budget' = Budget
    BY <1>1 DEF Budget, UsesShell
  <1>3. PICK event \in Events :
          /\ sent' = Append(sent, event)
          /\ toSend' = IF event = "configure" THEN toSend - 1 ELSE toSend
          /\ requested' = IF event = "done" THEN requested - 1 ELSE requested
          /\ event = "configure" => toSend > 0
          /\ event = "done" => requested > 0
    BY DEF SendConfigure, SendDone, CloseWindow, Events
  <1>4. /\ sent' \in Seq(Events)
        /\ Count("done", sent') = Count("done", sent) + (IF event = "done" THEN 1 ELSE 0)
        /\ Count("configure", sent') = Count("configure", sent) + (IF event = "configure" THEN 1 ELSE 0)
    <2>1. sent \in Seq(Events) /\ Append(sent, event) \in Seq(Events)
      BY <1>0 DEF EventTypes
    <2>2. QED
      BY <1>3, <2>1, CountAppend
  <1>5. ClientTypes' /\ OrderInv'
    BY <1>0, <1>1 DEF ClientTypes, OrderInv
  <1>6. EventTypes'
    BY <1>0, <1>1, <1>3, <1>4 DEF EventTypes
  <1>7. /\ requested + Count("done", batch) + Count("done", sent) = configures
        /\ configures + (toSend + Count("configure", batch) + Count("configure", sent)) = Budget
        /\ requested \in Nat /\ configures \in Nat /\ toSend \in Nat /\ Budget \in Nat
        /\ Count("done", sent) \in Nat /\ Count("configure", sent) \in Nat
        /\ Count("done", batch) \in Nat /\ Count("configure", batch) \in Nat
        /\ requested <= configures
    BY <1>0, <1>1, CountsAreNat DEF CountInv, EventTypes, Chains, Configuring
  <1>8. /\ requested' + Count("done", batch) + Count("done", sent') = configures
        /\ configures + (toSend' + Count("configure", batch) + Count("configure", sent')) = Budget
        /\ requested' <= configures
    <2>1. CASE event = "configure"
      <3>1. /\ toSend' = toSend - 1 /\ requested' = requested
        BY <1>3, <2>1
      <3>2. /\ Count("done", sent') = Count("done", sent)
            /\ Count("configure", sent') = Count("configure", sent) + 1
        BY <1>4, <1>7, <2>1
      <3>3. QED
        BY <1>7, <3>1, <3>2
    <2>2. CASE event = "done"
      <3>1. /\ toSend' = toSend /\ requested' = requested - 1
        BY <1>3, <2>2
      <3>2. /\ Count("done", sent') = Count("done", sent) + 1
            /\ Count("configure", sent') = Count("configure", sent)
        BY <1>4, <1>7, <2>2
      <3>3. QED
        BY <1>7, <3>1, <3>2
    <2>3. CASE event \notin {"configure", "done"}
      <3>1. /\ toSend' = toSend /\ requested' = requested
        BY <1>3, <2>3
      <3>2. /\ Count("done", sent') = Count("done", sent)
            /\ Count("configure", sent') = Count("configure", sent)
        BY <1>4, <1>7, <2>3
      <3>3. QED
        BY <1>7, <3>1, <3>2
    <2>4. QED
      BY <2>1, <2>2, <2>3
  <1>9. CountInv'
    BY <1>1, <1>2, <1>7, <1>8 DEF CountInv, Chains, Configuring
  <1>10. QED
    BY <1>5, <1>6, <1>9 DEF ClientInv

LEMMA InvStep == ClientInv /\ [Next]_vars => ClientInv'
  <1> SUFFICES ASSUME ClientInv, [Next]_vars PROVE ClientInv'
    OBVIOUS
  <1>1. CASE run_stop \/ UNCHANGED vars
    <2>1. UNCHANGED <<info, step, globals, made, held, waitForConfigure, cbuf, batch, sent, requested,
                      configures, ackPending, attached, early, toSend>>
      BY <1>1 DEF run_stop, vars, client, loop, surface
    <2>2. Budget' = Budget /\ Chains' = Chains /\ Configuring' = Configuring
      BY <2>1 DEF Budget, UsesShell, Chains, Configuring
    <2>3. ClientTypes' /\ EventTypes'
      BY <2>1 DEF ClientInv, ClientTypes, EventTypes
    <2>4. CountInv' /\ OrderInv'
      BY <2>1, <2>2 DEF ClientInv, CountInv, OrderInv
    <2>5. QED
      BY <2>3, <2>4 DEF ClientInv
  <1>2. QED
    BY <1>1, SetupStep, LoopStep, HandlerStep, CompositorStep DEF Next, Main

-----------------------------------------------------------------------------
\* The counts of callbacks and configure events, and their order, in every
\* reachable state.
THEOREM ClientInvariant == Spec => []ClientInv
  BY InvInit, InvStep, PTL DEF Spec

\* Every variable of the client keeps to its type, with no more callbacks and
\* configure events than the compositor is asked for, and a program that
\* returns has destroyed its surface and its connection.
THEOREM ClientTypeCorrect == Spec => []TypeOK
  <1>1. ClientInv => TypeOK
    <2> SUFFICES ASSUME ClientInv PROVE TypeOK
      OBVIOUS
    <2>1. batch \o sent \in Seq(Events)
      BY DEF ClientInv, EventTypes
    <2>2. \A k \in DOMAIN (batch \o sent) : (batch \o sent)[k] \in Events
      BY <2>1
    <2>3. configures <= Budget /\ requested <= configures
      BY CountsAreNat DEF ClientInv, CountInv, EventTypes, Configuring
    <2>4. configures \in 0 .. MaxConfigures /\ requested \in 0 .. MaxConfigures
      BY <2>3, ClientAssumption DEF ClientInv, EventTypes, Budget
    <2>5. (attached \/ configures > 0) => "xdgWmBase" \in globals /\ ~UsesShell
      <3>1. configures \in Nat /\ (attached => configures > 0)
        BY DEF ClientInv, EventTypes, OrderInv
      <3>2. (attached \/ configures > 0) => Budget # 0
        BY <2>3, <3>1, CountsAreNat DEF ClientInv
      <3>3. QED
        BY <3>2 DEF Budget
    <2>6. cbuf \in Buffers
      BY ClientAssumption DEF ClientInv, ClientTypes, Buffers
    <2>7. QED
      BY <2>2, <2>4, <2>5, <2>6 DEF ClientInv, ClientTypes, EventTypes, TypeOK
  <1>2. QED
    BY <1>1, ClientInvariant, PTL

\* However many configure events the compositor sends and whenever it answers
\* frame callbacks, no buffer is attached before the first is acknowledged.
THEOREM NoEarlyBuffer == Spec => []BufferAfterConfigure
  <1>1. ClientInv => BufferAfterConfigure
    BY DEF ClientInv, OrderInv, BufferAfterConfigure
  <1>2. QED
    BY <1>1, ClientInvariant, PTL

\* A chain of frame callbacks for each configure event, none broken.
THEOREM ChainsAddUp == Spec => []ChainsPerConfigure
  <1>1. ClientInv => ChainsPerConfigure
    BY DEF ClientInv, CountInv, Chains, ChainsPerConfigure
  <1>2. QED
    BY <1>1, ClientInvariant, PTL

-----------------------------------------------------------------------------
(* Why a signal stops the program: what SignalStops, a liveness property,  *)
(* rests on.                                                               *)

\* main only ever waits for an event.  One is on its way, will be sent or answers a
\* frame callback, unless the surface is one of the fullscreen shell.
EventsKeepComing ==
  step = "loop" /\ sent = <<>> => UsesShell \/ toSend > 0 \/ (requested > 0 /\ attached)

\* The flag is looked at before each turn; a configure event that is handled has drawn
\* a frame.
TurnInv ==
  /\ step \in {"connect", "buffers", "surface", "loop"} => running
  /\ step \in {"loop", "dispatch"} =>
       /\ "xdgWmBase" \in globals \/ UsesShell
       /\ configures > 0 => attached
  /\ running \in BOOLEAN /\ prun \in BOOLEAN

CloseSent ==
  \/ \E k \in DOMAIN batch : batch[k] = "close"
  \/ \E k \in DOMAIN sent : sent[k] = "close"

\* What the compositor and the user may still send before the program does something.
CloseLeft == IF CloseSent THEN 0 ELSE 1
ToCome == requested + toSend + CloseLeft

\* In the turn in which the signal comes, whichever event is handled next ends it.
ToHandle == 3 * (Len(batch) + Len(sent)) + 4 * ToCome

\* In the last turn: an event that is handled may lead to two others that are sent, a
\* frame callback answered and the window closed, and those are not handled any more.
ToDrain == 3 * Len(batch) + ToCome

StepsLeft ==
  CASE step \in {"return", "crashed"} -> 0
    [] step = "cleanup" -> 1
    [] step = "dispatch" /\ ~running -> 2 + ToDrain
    [] step = "dispatch" /\ running /\ batch # <<>> -> 3 + ToHandle
    [] step = "loop" -> 4 + ToHandle
    [] step = "dispatch" /\ running /\ batch = <<>> -> 5 + ToHandle
    [] step = "surface" -> 9 + 4 * MaxConfigures
    [] step = "buffers" -> 9 + 4 * MaxConfigures + (BufferCount - made)
    [] step = "connect" -> 10 + 4 * MaxConfigures + BufferCount

\* What is left gets less with every step once the signal has come.
EveryStepCounts == [][~prun => StepsLeft' < StepsLeft]_vars

LEMMA TurnInvStep == ClientInv /\ TurnInv /\ [Next]_vars => TurnInv'
  <1> SUFFICES ASSUME ClientInv, TurnInv, [Next]_vars PROVE TurnInv'
    OBVIOUS
  <1> USE DEF client, loop, surface, TurnInv
  <1>1. CASE \/ kmr_wc_core_create \/ kmr_wc_core_create_fails \/ kmr_wc_buffer_create
            \/ kmr_wc_buffer_create_fails \/ kmr_wc_surface_create_fails
    BY <1>1 DEF kmr_wc_core_create, kmr_wc_core_create_fails, kmr_wc_buffer_create,
                kmr_wc_buffer_create_fails, kmr_wc_surface_create_fails
  <1>2. CASE kmr_wc_surface_create
    BY <1>2 DEF kmr_wc_surface_create, ClientInv, CountInv, UsesShell
  <1>3. CASE Cleanup \/ DispatchStarts \/ DispatchEnds \/ DispatchFails
    BY <1>3 DEF Cleanup, DispatchStarts, DispatchEnds, DispatchFails, UsesShell
  <1>4. CASE xdg_surface_handle_configure
    <2>1. waitForConfigure /\ step = "dispatch"
      BY <1>4 DEF xdg_surface_handle_configure, Handle, ClientInv, OrderInv
    <2>2. QED
      BY <1>4, <2>1 DEF xdg_surface_handle_configure, Handle, Renders, UsesShell
  <1>5. CASE drawframe
    BY <1>5 DEF drawframe, Handle, Renders, UsesShell
  <1>6. CASE xdg_toplevel_handle_close
    BY <1>6 DEF xdg_toplevel_handle_close, Handle, UsesShell
  <1>7. CASE SendConfigure \/ SendDone \/ CloseWindow
    BY <1>7 DEF SendConfigure, SendDone, CloseWindow, UsesShell
  <1>8. CASE run_stop \/ UNCHANGED vars
    BY <1>8 DEF run_stop, vars, UsesShell
  <1>9. QED
    BY <1>1, <1>2, <1>3, <1>4, <1>5, <1>6, <1>7, <1>8 DEF Next, Main

LEMMA TurnInvariant == Spec => []TurnInv
  <1>1. Init => TurnInv
    BY DEF Init, TurnInv
  <1>2. QED
    BY <1>1, TurnInvStep, ClientInvariant, PTL DEF Spec

\* While main waits in the loop and nothing has arrived, the compositor has a configure
\* event to send or a frame callback to answer, the frame being there: a callback is
\* underway for each configure event handled and the others are yet to come.
THEOREM SomethingToDispatch == Spec => []EventsKeepComing
  <1>1. ClientInv /\ TurnInv => EventsKeepComing
    <2> SUFFICES ASSUME ClientInv, TurnInv, step = "loop", sent = <<>>, ~UsesShell
                 PROVE  toSend > 0 \/ (requested > 0 /\ attached)
      BY DEF EventsKeepComing
    <2>1. batch = <<>> /\ requested \in Nat /\ configures \in Nat /\ toSend \in Nat
      BY DEF ClientInv, EventTypes
    <2>2. Budget = MaxConfigures /\ MaxConfigures \in Nat /\ MaxConfigures > 0
      BY ClientAssumption DEF TurnInv, Budget
    <2>3. requested = configures /\ configures + toSend = MaxConfigures
      BY <2>1, <2>2, CountEmpty DEF ClientInv, CountInv, Chains, Configuring
    <2>4. CASE configures = 0
      BY <2>1, <2>2, <2>3, <2>4
    <2>5. CASE configures # 0
      BY <2>1, <2>3, <2>5 DEF TurnInv
    <2>6. QED
      BY <2>4, <2>5
  <1>2. QED
    BY <1>1, ClientInvariant, TurnInvariant, PTL

LEMMA LeftTypes ==
  ClientInv => /\ ToCome \in Nat /\ ToHandle \in Nat /\ ToDrain \in Nat /\ StepsLeft \in Nat
               /\ Len(batch) \in Nat /\ Len(sent) \in Nat
  <1> SUFFICES ASSUME ClientInv
               PROVE  /\ ToCome \in Nat /\ ToHandle \in Nat /\ ToDrain \in Nat
                      /\ StepsLeft \in Nat /\ Len(batch) \in Nat /\ Len(sent) \in Nat
    OBVIOUS
  <1>1. ClientTypes /\ EventTypes
    BY DEF ClientInv
  <1>2. Len(batch) \in Nat /\ Len(sent) \in Nat /\ ToCome \in Nat
    BY <1>1 DEF EventTypes, ToCome, CloseLeft
  <1>3. ToHandle \in Nat /\ ToDrain \in Nat
    BY <1>2 DEF ToHandle, ToDrain
  <1>4. /\ 9 + 4 * MaxConfigures + (BufferCount - made) \in Nat
        /\ 10 + 4 * MaxConfigures + BufferCount \in Nat /\ 9 + 4 * MaxConfigures \in Nat
    BY <1>1, ClientAssumption DEF ClientTypes
  <1>5. StepsLeft \in Nat
    BY <1>1, <1>3, <1>4 DEF StepsLeft, ClientTypes
  <1>6. QED
    BY <1>2, <1>3, <1>5

LEMMA SetupLeft ==
  ASSUME ClientInv, \/ kmr_wc_core_create \/ kmr_wc_core_create_fails
                    \/ kmr_wc_buffer_create \/ kmr_wc_buffer_create_fails
                    \/ kmr_wc_surface_create \/ kmr_wc_surface_create_fails
  PROVE  StepsLeft' < StepsLeft
  <1> USE DEF client, loop, surface
  <1>1. ClientTypes /\ EventTypes /\ CountInv /\ MaxConfigures \in Nat /\ BufferCount \in Nat
        /\ made \in Nat /\ made <= BufferCount
    BY ClientAssumption DEF ClientInv, ClientTypes
  <1>2. CASE kmr_wc_core_create_fails \/ kmr_wc_buffer_create_fails
    <2>1. StepsLeft' = 0
      BY <1>2 DEF kmr_wc_core_create_fails, kmr_wc_buffer_create_fails, StepsLeft
    <2>2. step \in {"connect", "buffers"}
      BY <1>2 DEF kmr_wc_core_create_fails, kmr_wc_buffer_create_fails
    <2>3. StepsLeft > 0
      BY <1>1, <2>2 DEF StepsLeft
    <2>4. QED
      BY <2>1, <2>3
  <1>3. CASE kmr_wc_surface_create_fails
    BY <1>1, <1>3 DEF kmr_wc_surface_create_fails, StepsLeft
  <1>4. CASE kmr_wc_core_create
    BY <1>1, <1>4 DEF kmr_wc_core_create, StepsLeft
  <1>5. CASE kmr_wc_buffer_create
    BY <1>1, <1>5 DEF kmr_wc_buffer_create, StepsLeft
  <1>6. CASE kmr_wc_surface_create
    <2>1. step = "surface" /\ StepsLeft = 9 + 4 * MaxConfigures
      BY <1>6 DEF kmr_wc_surface_create, StepsLeft
    <2>2. CASE step' # "loop"
      BY <1>1, <1>6, <2>1, <2>2 DEF kmr_wc_surface_create, StepsLeft
    <2>3. CASE step' = "loop"
      <3>1. batch' = <<>> /\ sent' = <<>> /\ requested' = 0 /\ toSend' \in {0, MaxConfigures}
        BY <1>1, <1>6, <2>1, <2>3 DEF kmr_wc_surface_create, EventTypes, CountInv
      <3>2. ToCome' \in Nat /\ ToCome' <= MaxConfigures + 1
        <4>1. ToCome' \in {0 + 0 + 0, 0 + 0 + 1, 0 + MaxConfigures + 0, 0 + MaxConfigures + 1}
          BY <3>1 DEF ToCome, CloseLeft
        <4>2. QED
          BY <1>1, <4>1
      <3>3. ToHandle' = 4 * ToCome'
        BY <3>1, <3>2 DEF ToHandle
      <3>4. StepsLeft' = 4 + ToHandle'
        BY <2>3 DEF StepsLeft
      <3>5. \A c, m \in Nat : c <= m + 1 => 4 + 4 * c < 9 + 4 * m
        OBVIOUS
      <3>6. QED
        BY <1>1, <2>1, <3>2, <3>3, <3>4, <3>5
    <2>4. QED
      BY <2>2, <2>3
  <1>7. QED
    BY <1>2, <1>3, <1>4, <1>5, <1>6

LEMMA DispatchLeft ==
  ASSUME ClientInv, TurnInv, Cleanup \/ DispatchStarts \/ DispatchEnds \/ DispatchFails
  PROVE  StepsLeft' < StepsLeft
  <1> USE DEF client, loop, surface
  <1>1. ToHandle \in Nat /\ ToDrain \in Nat /\ EventTypes
    BY LeftTypes DEF ClientInv
  <1>2. CASE Cleanup
    BY <1>2 DEF Cleanup, StepsLeft
  <1>3. CASE DispatchFails
    <2>1. step = "loop" /\ step' = "cleanup"
      BY <1>3 DEF DispatchFails
    <2>2. StepsLeft = 4 + ToHandle /\ StepsLeft' = 1
      BY <2>1 DEF StepsLeft
    <2>3. QED
      BY <1>1, <2>2
  <1>4. CASE DispatchEnds
    <2>1. /\ step = "dispatch" /\ batch = <<>> /\ UNCHANGED <<batch, sent, requested, toSend, running>>
          /\ step' = IF running THEN "loop" ELSE "cleanup"
      BY <1>4 DEF DispatchEnds
    <2>2. CASE running
      <3>1. ToHandle' = ToHandle
        BY <2>1 DEF ToHandle, ToCome, CloseLeft, CloseSent
      <3>2. StepsLeft = 5 + ToHandle /\ StepsLeft' = 4 + ToHandle
        BY <2>1, <2>2, <3>1 DEF StepsLeft
      <3>3. QED
        BY <1>1, <3>2
    <2>3. CASE ~running
      <3>1. StepsLeft = 2 + ToDrain /\ StepsLeft' = 1
        BY <2>1, <2>3 DEF StepsLeft
      <3>2. QED
        BY <1>1, <3>1
    <2>4. QED
      BY <2>2, <2>3
  <1>5. CASE DispatchStarts
    <2>1. /\ step = "loop" /\ step' = "dispatch" /\ batch = <<>> /\ batch' = sent /\ sent # <<>>
          /\ sent' = <<>> /\ UNCHANGED <<requested, toSend, running>>
      BY <1>5 DEF DispatchStarts
    <2>2. ToCome' = ToCome
      BY <2>1 DEF ToCome, CloseLeft, CloseSent
    <2>3. ToHandle' = ToHandle
      BY <1>1, <2>1, <2>2 DEF ToHandle, EventTypes
    <2>4. running /\ running'
      BY <2>1 DEF TurnInv
    <2>5. StepsLeft = 4 + ToHandle /\ StepsLeft' = 3 + ToHandle
      BY <2>1, <2>3, <2>4 DEF StepsLeft
    <2>6. QED
      BY <1>1, <2>5
  <1>6. QED
    BY <1>2, <1>3, <1>4, <1>5

LEMMA HandleSum ==
  \A l, m, c, c1 \in Nat :
    l > 0 /\ c1 <= c + 2 => /\ 2 + (3 * (l - 1) + c1) < 2 + (3 * l + c)
                            /\ 2 + (3 * (l - 1) + c1) < 3 + (3 * (l + m) + 4 * c)
  OBVIOUS

\* Whichever event is handled, no frame and no dispatch follows.
LEMMA HandlerLeft ==
  ASSUME ClientInv, TurnInv, ~prun,
         xdg_surface_handle_configure \/ drawframe \/ xdg_toplevel_handle_close
  PROVE  StepsLeft' < StepsLeft
  <1> USE DEF client, loop, surface
  <1>1. EventTypes /\ ClientInv'
    BY HandlerStep DEF ClientInv
  <1>2. /\ step = "dispatch" /\ step' = "dispatch" /\ batch # <<>> /\ batch' = Tail(batch)
        /\ UNCHANGED <<sent, toSend>>
    BY DEF xdg_surface_handle_configure, drawframe, xdg_toplevel_handle_close, Handle
  <1>3. ~running' /\ requested' \in {requested, requested + 1}
    <2>1. CASE xdg_surface_handle_configure
      <3>1. waitForConfigure
        BY <1>2 DEF ClientInv, OrderInv
      <3>2. running' = prun /\ requested' = requested + 1
        BY <2>1, <3>1 DEF xdg_surface_handle_configure, Renders
      <3>3. QED
        BY <3>2
    <2>2. CASE drawframe
      BY <2>2 DEF drawframe, Renders
    <2>3. CASE xdg_toplevel_handle_close
      BY <2>3 DEF xdg_toplevel_handle_close
    <2>4. QED
      BY <2>1, <2>2, <2>3
  <1>4. /\ Len(batch) \in Nat /\ Len(batch) > 0 /\ Len(sent) \in Nat /\ ToCome \in Nat
        /\ Len(batch') = Len(batch) - 1
    BY <1>1, <1>2, LeftTypes DEF EventTypes
  <1>5. ToCome' <= ToCome + 2 /\ ToCome' \in Nat
    <2>1. ToCome' \in {requested + toSend + 0, requested + toSend + 1,
                       requested + 1 + toSend + 0, requested + 1 + toSend + 1}
      BY <1>2, <1>3 DEF ToCome, CloseLeft
    <2>2. ToCome \in {requested + toSend + 0, requested + toSend + 1}
      BY DEF ToCome, CloseLeft
    <2>3. QED
      BY <1>1, <2>1, <2>2 DEF EventTypes
  <1>6. StepsLeft' = 2 + (3 * (Len(batch) - 1) + ToCome')
    BY <1>2, <1>3, <1>4 DEF StepsLeft, ToDrain
  <1>7. StepsLeft = 2 + (3 * Len(batch) + ToCome)
        \/ StepsLeft = 3 + (3 * (Len(batch) + Len(sent)) + 4 * ToCome)
    BY <1>2 DEF StepsLeft, ToDrain, ToHandle, TurnInv
  <1>8. QED
    BY <1>4, <1>5, <1>6, <1>7, HandleSum

LEMMA SendSum ==
  \A l, m, c, c1 \in Nat :
    c1 + 1 <= c => /\ 3 * l + c1 < 3 * l + c
                   /\ 3 * (l + (m + 1)) + 4 * c1 < 3 * (l + m) + 4 * c
  OBVIOUS

\* The compositor and the user have only so much to send.
LEMMA CompositorLeft ==
  ASSUME ClientInv, TurnInv, SendConfigure \/ SendDone \/ CloseWindow
  PROVE  StepsLeft' < StepsLeft
  <1> USE DEF client, loop, surface
  <1>1. EventTypes
    BY DEF ClientInv
  <1>2. step \in {"loop", "dispatch"} /\ UNCHANGED <<step, batch, running>>
    BY DEF SendConfigure, SendDone, CloseWindow, InLoop
  <1>3. PICK event \in Events :
          /\ sent' = Append(sent, event)
          /\ event = "configure" => toSend > 0 /\ toSend' = toSend - 1 /\ requested' = requested
          /\ event = "done" => requested > 0 /\ requested' = requested - 1 /\ toSend' = toSend
          /\ event = "close" => ~CloseSent /\ UNCHANGED <<toSend, requested>>
    <2>1. CASE SendConfigure
      BY <2>1 DEF SendConfigure, Events
    <2>2. CASE SendDone
      BY <2>2 DEF SendDone, Events
    <2>3. CASE CloseWindow
      <3>1. \A k \in DOMAIN (batch \o sent) : (batch \o sent)[k] # "close"
        BY <2>3 DEF CloseWindow
      <3>2. /\ batch \in Seq(Events) /\ sent \in Seq(Events)
            /\ DOMAIN batch = 1 .. Len(batch) /\ DOMAIN sent = 1 .. Len(sent)
            /\ Len(batch) \in Nat /\ Len(sent) \in Nat
            /\ DOMAIN (batch \o sent) = 1 .. Len(batch) + Len(sent)
        BY <1>1 DEF EventTypes
      <3>3. \A k \in DOMAIN batch : k \in DOMAIN (batch \o sent) /\ (batch \o sent)[k] = batch[k]
        BY <3>2
      <3>4. \A k \in DOMAIN sent : /\ Len(batch) + k \in DOMAIN (batch \o sent)
                                  /\ (batch \o sent)[Len(batch) + k] = sent[k]
        BY <3>2
      <3>5. ~CloseSent
        BY <3>1, <3>3, <3>4 DEF CloseSent
      <3>6. QED
        BY <2>3, <3>5 DEF CloseWindow, Events
    <2>4. QED
      BY <2>1, <2>2, <2>3
  <1>4. /\ Len(batch) \in Nat /\ Len(sent) \in Nat /\ ToCome \in Nat
        /\ Len(sent') = Len(sent) + 1 /\ DOMAIN sent = 1 .. Len(sent)
        /\ DOMAIN sent' = 1 .. Len(sent) + 1 /\ sent'[Len(sent) + 1] = event
        /\ \A k \in 1 .. Len(sent) : sent'[k] = sent[k]
    BY <1>1, <1>3, LeftTypes DEF EventTypes
  <1>5. CloseSent \/ event = "close" => CloseSent'
    <2>1. CASE event = "close"
      BY <1>4, <2>1 DEF CloseSent
    <2>2. CASE CloseSent
      BY <1>2, <1>4, <2>2 DEF CloseSent
    <2>3. QED
      BY <2>1, <2>2
  <1>6. ToCome' \in Nat /\ ToCome' + 1 <= ToCome
    <2>1. /\ CloseLeft \in {0, 1} /\ CloseLeft' \in {0, 1}
          /\ CloseLeft = 0 => CloseLeft' = 0
          /\ event = "close" => CloseLeft = 1 /\ CloseLeft' = 0
      BY <1>3, <1>5 DEF CloseLeft
    <2>2. /\ requested \in Nat /\ toSend \in Nat
          /\ ToCome = requested + toSend + CloseLeft
          /\ \/ CloseLeft' = CloseLeft
             \/ CloseLeft = 1 /\ CloseLeft' = 0
      BY <1>1, <2>1 DEF ToCome, EventTypes
    <2>3. CASE event = "configure"
      <3>1. ToCome' = requested + (toSend - 1) + CloseLeft \/ ToCome' = requested + (toSend - 1) + 0
        BY <1>3, <2>2, <2>3 DEF ToCome
      <3>2. QED
        BY <1>3, <2>1, <2>2, <2>3, <3>1
    <2>4. CASE event = "done"
      <3>1. ToCome' = (requested - 1) + toSend + CloseLeft \/ ToCome' = (requested - 1) + toSend + 0
        BY <1>3, <2>2, <2>4 DEF ToCome
      <3>2. QED
        BY <1>3, <2>1, <2>2, <2>4, <3>1
    <2>5. CASE event = "close"
      BY <1>1, <1>3, <2>1, <2>5 DEF ToCome, EventTypes
    <2>6. QED
      BY <2>3, <2>4, <2>5 DEF Events
  <1>7. ToDrain' < ToDrain
    BY <1>2, <1>4, <1>6, SendSum DEF ToDrain
  <1>8. ToHandle' < ToHandle
    BY <1>2, <1>4, <1>6, SendSum DEF ToHandle
  <1>9. /\ ToDrain \in Nat /\ ToDrain' \in Nat /\ ToHandle \in Nat /\ ToHandle' \in Nat
    <2>1. ClientInv'
      BY CompositorStep
    <2>2. (ToDrain \in Nat /\ ToHandle \in Nat)'
      BY <2>1, LeftTypes, PTL
    <2>3. QED
      BY <2>2, LeftTypes
  <1>10. \/ StepsLeft = 2 + ToDrain /\ StepsLeft' = 2 + ToDrain'
         \/ StepsLeft = 3 + ToHandle /\ StepsLeft' = 3 + ToHandle'
         \/ StepsLeft = 4 + ToHandle /\ StepsLeft' = 4 + ToHandle'
         \/ StepsLeft = 5 + ToHandle /\ StepsLeft' = 5 + ToHandle'
    BY <1>2 DEF StepsLeft, TurnInv
  <1>11. \A k, a, b \in Nat : a < b => k + a < k + b
    OBVIOUS
  <1>12. QED
    BY <1>7, <1>8, <1>9, <1>10, <1>11

\* From the signal on, whatever main is doing and whatever else arrives, there are
\* StepsLeft steps left to the program, the compositor and the user, and with every step
\* fewer: the turn of the loop in which the signal came is the last one.  With
\* SomethingToDispatch this is what SignalStops needs of the code; fairness says that
\* the steps are taken.
THEOREM StepsToTheEnd == Spec => EveryStepCounts /\ [](StepsLeft \in Nat)
  <1>1. ClientInv => StepsLeft \in Nat
    BY LeftTypes
  <1>2. ClientInv /\ TurnInv /\ [Next]_vars => [~prun => StepsLeft' < StepsLeft]_vars
    <2> SUFFICES ASSUME ClientInv, TurnInv, Next, ~prun PROVE StepsLeft' < StepsLeft
      OBVIOUS
    <2>1. ~run_stop
      BY DEF run_stop
    <2>2. QED
      BY <2>1, SetupLeft, DispatchLeft, HandlerLeft, CompositorLeft DEF Next, Main
  <1>3. QED
    BY <1>1, <1>2, ClientInvariant, TurnInvariant, PTL DEF Spec, EveryStepCounts
=============================================================================
