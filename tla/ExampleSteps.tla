---------------------------- MODULE ExampleSteps ----------------------------
(***************************************************************************)
(* The notation the example programs of src/examples are written down in.  *)
(* A C function is a sequence of steps, one per call that creates, uses or *)
(* destroys something; a slot is a member of the program's app structs     *)
(* (kmr_vk_buffer[1] is "buffer1").  How a step runs is said in Examples.  *)
(*                                                                         *)
(* How a call is checked is part of the step, because the programs differ: *)
(*   "create"  the handle that comes back is compared with NULL            *)
(*   "deref"   a member of the array that comes back is read unchecked     *)
(*   "past"    the member read is the one after the last                   *)
(*   "call"    the result is compared with -1                              *)
(*   "attempt" the result is thrown away                                   *)
(*   "submit"  the result is compared with -1, and does not say what the   *)
(*             GPU did: the submission inside is not checked               *)
(*   "map"     there is no result: memory is written through a pointer,    *)
(*             which is NULL when the memory could not be mapped           *)
(*   "always"  there is no result to look at                               *)
(***************************************************************************)
EXTENDS Naturals, Sequences

Step == [does |-> "always", slot |-> "none", uses |-> {}, reads |-> {},
         clears |-> {}, writes |-> {}, undo |-> <<>>]

Create(slot, uses)      == [Step EXCEPT !.does = "create", !.slot = slot, !.uses = uses]
CreateDeref(slot, uses) == [Step EXCEPT !.does = "deref", !.slot = slot, !.uses = uses]
CreatePast(slot, uses)  == [Step EXCEPT !.does = "past", !.slot = slot, !.uses = uses]
Call(uses)              == [Step EXCEPT !.does = "call", !.uses = uses]

\* A destroy function that is given the handle, and the assignment of NULL
\* after it where there is one.
Destroy(slot) == [Step EXCEPT !.does = "destroy", !.slot = slot]
Null(slot)    == [Step EXCEPT !.does = "null", !.slot = slot]

\* A use of objects, of what has been written to them and of image layouts,
\* all named <<slot, what>>.
Use(uses, reads, clears, writes) ==
  [Step EXCEPT !.uses = uses, !.reads = reads, !.clears = clears, !.writes = writes]
Submitted(step) == [step EXCEPT !.does = "submit"]
Mapped(step)    == [step EXCEPT !.does = "map"]
Unchecked(step) == [step EXCEPT !.does = "attempt"]

\* The steps of a function that runs undo before it returns -1.
OnFailure(steps, undo) == [i \in DOMAIN steps |-> [steps[i] EXCEPT !.undo = undo]]

If(condition, steps) == IF condition THEN steps ELSE <<>>
DestroyAll(slots) == [i \in DOMAIN slots |-> Destroy(slots[i])]
DestroyAndNull(slot) == <<Destroy(slot), Null(slot)>>
=============================================================================
