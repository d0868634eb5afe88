---------------------------- MODULE FunctionSteps ----------------------------
(***************************************************************************)
(* The notation the create functions of src/src are written down in.  A    *)
(* function is the sequence of its calls that can fail or that make or     *)
(* give back something, what each goto label releases, and what the        *)
(* matching destroy function releases.  What a variable holds is named     *)
(* after it: fences[2] is <<"fence", 2>>.  How a function runs is said in  *)
(* LibraryObjects.                                                         *)
(*                                                                         *)
(* What a call does when it fails is part of the step:                     *)
(*   "get"    the function goes to label; nothing was made                 *)
(*   "skip"   nobody looks, the variable stays NULL                        *)
(*   "maybe"  the data decide whether it is made; as "get" when it is      *)
(*   "crash"  nobody looks, or the undoing does not expect it, and NULL    *)
(*            is read                                                      *)
(*   "set"    a plain assignment, which cannot fail                        *)
(*   "free"   gives back what slot holds, on the way to success            *)
(***************************************************************************)
EXTENDS Naturals, SequencesExt

none == <<"none">>
Step == [does |-> "get", slot |-> none, from |-> {}, label |-> "return"]

\* A call that makes slot, one that makes it out of what other slots hold,
\* and one that makes nothing, with the label they go to.
Get(slot, label)           == [Step EXCEPT !.slot = slot, !.label = label]
GetFrom(slot, from, label) == [Get(slot, label) EXCEPT !.from = from]
Try(label)                 == Get(none, label)

GetOrSkip(slot)  == [Step EXCEPT !.does = "skip", !.slot = slot]
GetMaybe(slot, label) == [Get(slot, label) EXCEPT !.does = "maybe"]
GetOrCrash(slot) == [Step EXCEPT !.does = "crash", !.slot = slot]
Set(slot)        == [Step EXCEPT !.does = "set", !.slot = slot]
Free(slot)       == [Step EXCEPT !.does = "free", !.slot = slot]

\* A function: given are the slots its caller hands over, kept those the
\* caller still has when it fails, junk the variables that hold neither NULL
\* nor an object to begin with.  A goto runs the label and those after it.
Function(steps, undo, destroy) ==
  [steps |-> steps, undo |-> undo, destroy |-> destroy,
   given |-> {}, kept |-> {}, junk |-> {}]
At(label, slots) == [label |-> label, slots |-> slots]

Unwind(undo, label) ==
  FlattenSeq([i \in DOMAIN undo |->
    IF \E j \in 1..i : undo[j].label = label THEN undo[i].slots ELSE <<>>])

\* One object, which is returned or not.
Single(slot) == Function(<<Get(slot, "return")>>, <<>>, <<slot>>)

Each(name, n) == [i \in 1..n |-> <<name, i>>]
GetEach(name, n, label) == [i \in 1..n |-> Get(<<name, i>>, label)]
TryEach(n, label) == [i \in 1..n |-> Try(label)]
\* The sequences part[1], part[2], ... of a loop, one after the other.
Loop(part) == FlattenSeq(part)
=============================================================================
