------------------------ MODULE LibraryObjects_proofs ------------------------
(***************************************************************************)
(* That the create functions of src/src release what they made, once, and  *)
(* lose nothing, for arrays of every length.  First the invariant, which   *)
(* every run of a tidy function keeps; then that every function is tidy,   *)
(* one lemma for each; then the theorems.                                  *)
(***************************************************************************)
EXTENDS LibraryObjects, TidyFunctions

-----------------------------------------------------------------------------
(* The invariant.                                                          *)

Steps == Code.steps

\* Functions that may touch a variable that was never set, what a function that fails
\* may leave behind, and that the one that runs is tidy but for these.
Exempt == fn \in {"image", "dmabuf_image", "export_dmabuf"}
Left == KnownLeaks \cup Code.kept
AllTidy == Tidy(Code, Left, Optional, Exempt)
Named == fn \in Names /\ size \in Sizes

\* The steps behind it.
Before == {q \in DOMAIN Steps : q < pc}

\* While the function runs, and when it has returned: what it holds was given to it or
\* made by a step behind it, and none of it was given away; what those steps surely made
\* and none of them gave away is there; what it released, a step behind it gave away.
RunningInv ==
  /\ todo = <<>> /\ pc \in 1 .. Len(Steps) + 1
  /\ \A x \in live : x \in Code.given \/ \E q \in Before : Makes(Steps[q]) /\ Steps[q].slot = x
  /\ \A q \in Before : Gives(Steps[q]) \cap live = {}
  /\ \A x \in Code.given : x \in live \/ \E q \in Before : x \in Gives(Steps[q])
  /\ \A r \in Before : Surely(Steps[r]) =>
       Steps[r].slot \in live \/ \E q \in Before : Steps[r].slot \in Gives(Steps[q])
  /\ \A x \in released : \E q \in Before : x \in Gives(Steps[q])
  /\ junk \subseteq Code.junk
  /\ \A q \in Before : Writes(Steps[q]) => Steps[q].slot \notin junk

\* While it undoes, or is destroyed: what is to be released is named once, was not
\* released before, and is everything that is there but for what is known to be left.
ReleasingInv(left) ==
  /\ IsSeq(todo) /\ IsInjective(todo)
  /\ ToSet(todo) \cap released = {}
  /\ live \subseteq ToSet(todo) \cup left

FunctionInv ==
  /\ Named
  /\ CASE status \in {"running", "returned"} ->
            RunningInv /\ (status = "returned" => pc = Len(Steps) + 1)
       [] status = "unwinding"  -> ReleasingInv(Left) /\ (junk = {} \/ Exempt)
       [] status = "destroying" -> ReleasingInv({}) /\ junk = {}
       [] status = "failed"     -> todo = <<>> /\ live \subseteq Left
       [] status = "destroyed"  -> todo = <<>> /\ live = {}
       [] status = "crashed"    -> todo = <<>>
       [] OTHER -> FALSE

-----------------------------------------------------------------------------
(* Every step of a tidy function keeps it.                                 *)

LEMMA TailFacts ==
  ASSUME NEW s, IsSeq(s), s # <<>>
  PROVE  /\ IsSeq(Tail(s)) /\ Head(s) \in ToSet(s) /\ ToSet(Tail(s)) \subseteq ToSet(s)
         /\ \A e \in ToSet(s) : e = Head(s) \/ e \in ToSet(Tail(s))
         /\ IsInjective(s) => IsInjective(Tail(s)) /\ Head(s) \notin ToSet(Tail(s))
  <1> DEFINE n == Len(s)
             t == Tail(s)
  <1>1. n \in Nat /\ DOMAIN s = 1..n /\ \A k \in 1..n : s[k] \in ToSet(s)
    BY SeqFacts
  <1>2. s \in Seq(ToSet(s)) /\ n # 0
    BY DEF IsSeq
  <1>3. /\ t \in Seq(ToSet(s)) /\ Len(t) = n - 1 /\ DOMAIN t = 1 .. n - 1
        /\ \A k \in 1 .. n - 1 : t[k] = s[k + 1]
        /\ Head(s) = s[1]
    BY <1>2
  <1> HIDE DEF n, t
  <1>4. 1 \in 1..n /\ \A k \in 1 .. n - 1 : k + 1 \in 1..n /\ k + 1 # 1
    BY <1>1, <1>2
  <1>5. t \in Seq(ToSet(t))
    BY <1>3 DEF ToSet
  <1>6. ToSet(t) \subseteq ToSet(s)
    BY <1>1, <1>3, <1>4 DEF ToSet
  <1>7. ASSUME NEW e \in ToSet(s), e # s[1] PROVE e \in ToSet(t)
    <2>1. PICK k \in 1..n : s[k] = e
      BY <1>1 DEF ToSet
    <2>2. k - 1 \in 1 .. n - 1 /\ (k - 1) + 1 = k
      BY <1>1, <1>7, <2>1
    <2>3. t[k - 1] = e
      BY <1>3, <2>1, <2>2
    <2>4. QED
      BY <1>3, <2>2, <2>3 DEF ToSet
  <1>8. ASSUME IsInjective(s) PROVE IsInjective(t) /\ s[1] \notin ToSet(t)
    <2>1. \A a, b \in 1..n : s[a] = s[b] => a = b
      BY <1>1, <1>8 DEF IsInjective
    <2>2. ASSUME NEW a \in 1 .. n - 1, NEW b \in 1 .. n - 1, t[a] = t[b] PROVE a = b
      <3>1. a + 1 = b + 1
        BY <1>3, <1>4, <2>1, <2>2
      <3>2. QED
        BY <1>1, <3>1
    <2>3. ASSUME NEW a \in 1 .. n - 1, t[a] = s[1] PROVE FALSE
      BY <1>3, <1>4, <2>1, <2>3
    <2>4. QED
      BY <1>3, <2>2, <2>3 DEF IsInjective, ToSet
  <1>9. QED
    BY <1>3, <1>4, <1>1, <1>5, <1>6, <1>7, <1>8 DEF t, IsSeq

LEMMA InitInv ==
  ASSUME Init, AllTidy PROVE FunctionInv
  <1>1. /\ Named /\ status = "running" /\ pc = 1 /\ todo = <<>> /\ released = {}
        /\ live = Code.given /\ junk = Code.junk
    BY DEF Init, Named
  <1>2. IsSeq(Steps)
    BY DEF AllTidy, Tidy, Steps
  <1>3. Before = {} /\ pc \in 1 .. Len(Steps) + 1
    BY <1>1, <1>2, SeqFacts DEF Before
  <1>4. RunningInv
    BY <1>1, <1>3 DEF RunningInv
  <1>5. QED
    BY <1>1, <1>4 DEF FunctionInv

LEMMA SameFunction ==
  ASSUME UNCHANGED <<fn, size>>
  PROVE  /\ Named' <=> Named
         /\ Code' = Code /\ Steps' = Steps /\ Left' = Left /\ Optional' = Optional
         /\ Exempt' <=> Exempt
  BY DEF Named, Code, Steps, Left, Optional, Exempt, KnownLeaks

\* What a step of the function has to do for the invariant to go on holding.
RunOn ==
  /\ pc \in DOMAIN Steps /\ pc' = pc + 1
  /\ UNCHANGED <<fn, size, status, todo>>
  /\ \A x \in live' : x \in live \/ (Makes(This) /\ This.slot = x)
  /\ Gives(This) \cap live' = {}
  /\ \A x \in live : x \in live' \/ x \in Gives(This)
  /\ Surely(This) => This.slot \in live'
  /\ \A x \in released' : x \in released \/ x \in Gives(This)
  /\ junk' \subseteq junk
  /\ Writes(This) => This.slot \notin junk'

LEMMA RunOnHolds ==
  ASSUME AllTidy, RunningInv, RunOn
  PROVE  RunningInv'
  <1>1. IsSeq(Steps) /\ Ordered(Code.undo, Left, Steps)
    BY DEF AllTidy, Tidy, Steps
  <1>2. /\ Len(Steps) \in Nat /\ pc \in Nat /\ DOMAIN Steps = 1..Len(Steps)
        /\ This = Steps[pc]
    BY <1>1, SeqFacts DEF This, Steps, RunOn
  <1>3. Code' = Code /\ Steps' = Steps
    BY SameFunction DEF RunOn
  <1>4. Before' = Before \cup {pc} /\ Before \subseteq DOMAIN Steps
    BY <1>2, <1>3 DEF Before, RunOn
  <1>5. todo' = <<>> /\ pc' \in 1 .. Len(Steps) + 1
    BY <1>2 DEF RunningInv, RunOn
  <1>6. ASSUME NEW x \in live'
        PROVE  x \in Code.given \/ \E q \in Before' : Makes(Steps[q]) /\ Steps[q].slot = x
    BY <1>2, <1>4 DEF RunningInv, RunOn
  <1>7. ASSUME NEW q \in Before' PROVE Gives(Steps[q]) \cap live' = {}
    <2>1. CASE q = pc
      BY <1>2, <2>1 DEF RunOn
    <2>2. CASE q \in Before
      <3>1. Gives(Steps[q]) \cap live = {}
        BY <2>2 DEF RunningInv
      <3>2. Makes(This) => This.slot \notin Gives(Steps[q])
        <4>1. q \in DOMAIN Steps /\ q < pc
          BY <2>2 DEF Before
        <4>2. Follows(Code.undo, Left, Steps[q], Steps[pc])
          BY <1>1, <4>1 DEF Ordered, RunOn
        <4>3. QED
          BY <1>2, <4>2 DEF Follows
      <3>3. QED
        BY <3>1, <3>2 DEF RunOn
    <2>3. QED
      BY <1>4, <2>1, <2>2
  <1>8. ASSUME NEW x \in live \cup {This.slot}, x \in live \/ Surely(This)
        PROVE  x \in live' \/ \E q \in Before' : x \in Gives(Steps[q])
    BY <1>2, <1>4, <1>8 DEF RunOn
  <1>9. ASSUME NEW x \in Code.given
        PROVE  x \in live' \/ \E q \in Before' : x \in Gives(Steps[q])
    BY <1>4, <1>8 DEF RunningInv
  <1>10. ASSUME NEW r \in Before', Surely(Steps[r])
         PROVE  Steps[r].slot \in live' \/ \E q \in Before' : Steps[r].slot \in Gives(Steps[q])
    <2>1. CASE r = pc
      BY <1>2, <1>8, <1>10, <2>1
    <2>2. CASE r \in Before
      BY <1>4, <1>8, <1>10, <2>2 DEF RunningInv
    <2>3. QED
      BY <1>4, <2>1, <2>2
  <1>11. ASSUME NEW x \in released' PROVE \E q \in Before' : x \in Gives(Steps[q])
    BY <1>2, <1>4 DEF RunningInv, RunOn
  <1>12. junk' \subseteq Code.junk
    BY DEF RunningInv, RunOn
  <1>13. ASSUME NEW q \in Before', Writes(Steps[q]) PROVE Steps[q].slot \notin junk'
    BY <1>2, <1>4, <1>13 DEF RunningInv, RunOn
  <1>14. QED
    BY <1>3, <1>5, <1>6, <1>7, <1>9, <1>10, <1>11, <1>12, <1>13 DEF RunningInv

LEMMA SoundThis ==
  ASSUME AllTidy, pc \in DOMAIN Steps
  PROVE  Sound(Code.undo, Code.given, Left, This)
  <1>1. This \in ToSet(Code.steps)
    BY DEF This, Steps, ToSet
  <1>2. QED
    BY <1>1 DEF AllTidy, Tidy

LEMMA RunsOn ==
  ASSUME AllTidy, FunctionInv, Succeeds \/ NotMade \/ Assigns \/ Frees
  PROVE  FunctionInv'
  <1>1. /\ status = "running" /\ pc \in DOMAIN Steps /\ pc' = pc + 1
        /\ UNCHANGED <<fn, size, status, todo>>
    BY DEF Succeeds, NotMade, Assigns, Frees, Calls, GoOn, Steps
  <1>2. RunningInv /\ Named
    BY <1>1 DEF FunctionInv
  <1>3. This.from # {} => This.does = "get"
    BY <1>1, SoundThis DEF Sound
  <1>4. Makes(This) => This.slot \notin This.from
    BY <1>1, SoundThis DEF Sound
  <1>5. SUFFICES RunningInv'
    BY <1>1, <1>2, SameFunction DEF FunctionInv
  <1>6. CASE Succeeds
    <2>1. /\ This.does \in {"get", "skip", "maybe", "crash"}
          /\ live' = (live \ This.from) \cup ({This.slot} \ {none})
          /\ junk' = junk \ {This.slot} /\ released' = released \cup This.from
      BY <1>6 DEF Succeeds, Calls, This
    <2>2. Gives(This) = This.from /\ (Makes(This) <=> This.slot # none)
      BY <2>1 DEF Gives, Makes
    <2>3. Surely(This) => This.slot # none
      BY DEF Surely
    <2>4. RunOn
      BY <1>1, <1>2, <1>4, <2>1, <2>2, <2>3 DEF RunOn
    <2>5. QED
      BY <1>2, <2>4, RunOnHolds
  <1>7. CASE NotMade
    <2>1. /\ This.does \in {"skip", "maybe"}
          /\ live' = live /\ junk' = junk /\ released' = released
      BY <1>7 DEF NotMade, Calls, This
    <2>2. Gives(This) = {} /\ ~Surely(This) /\ ~Writes(This)
      BY <1>3, <2>1 DEF Gives, Surely, Writes
    <2>3. RunOn
      BY <1>1, <1>2, <2>1, <2>2 DEF RunOn
    <2>5. QED
      BY <1>2, <2>3, RunOnHolds
  <1>8. CASE Assigns
    <2>1. /\ This.does = "set"
          /\ live' = live /\ junk' = junk \ {This.slot} /\ released' = released
      BY <1>8 DEF Assigns, Calls, This
    <2>2. Gives(This) = {} /\ ~Surely(This)
      BY <1>3, <2>1 DEF Gives, Surely
    <2>3. RunOn
      BY <1>1, <1>2, <2>1, <2>2 DEF RunOn
    <2>5. QED
      BY <1>2, <2>3, RunOnHolds
  <1>9. CASE Frees
    <2>1. /\ This.does = "free"
          /\ live' = live \ {This.slot} /\ junk' = junk
          /\ released' = released \cup ({This.slot} \cap live)
      BY <1>9 DEF Frees, Calls, This
    <2>2. Gives(This) = {This.slot} /\ ~Surely(This) /\ ~Writes(This)
      BY <2>1 DEF Gives, Surely, Writes
    <2>3. RunOn
      BY <1>1, <1>2, <2>1, <2>2 DEF RunOn
    <2>5. QED
      BY <1>2, <2>3, RunOnHolds
  <1>10. QED
    BY <1>6, <1>7, <1>8, <1>9

\* A slot that is given back by the next step is not held where a step can fail.
LEMMA NotPassing ==
  ASSUME AllTidy, RunningInv, pc \in DOMAIN Steps, Fails(Steps[pc]),
         NEW q \in Before, Makes(Steps[q]), Steps[q].slot \in Passing
  PROVE  Steps[q].slot \notin live
  <1>1. IsSeq(Steps) /\ Passes(Steps)
    BY DEF AllTidy, Tidy, Steps
  <1>2. Len(Steps) \in Nat /\ DOMAIN Steps = 1..Len(Steps)
    BY <1>1, SeqFacts
  <1>3. /\ q \in DOMAIN Steps /\ q < pc /\ q + 1 \in DOMAIN Steps
        /\ Steps[q + 1].does = "free" /\ Steps[q + 1].slot = Steps[q].slot
    BY <1>1 DEF Passes, Before
  <1>4. q + 1 # pc
    BY <1>3 DEF Fails
  <1>5. q + 1 \in Before
    BY <1>2, <1>3, <1>4 DEF Before
  <1>6. Steps[q].slot \in Gives(Steps[q + 1])
    BY <1>3 DEF Gives
  <1>7. QED
    BY <1>5, <1>6 DEF RunningInv

LEMMA FailsSeenKeeps ==
  ASSUME AllTidy, FunctionInv, FailsSeen PROVE FunctionInv'
  <1>1. /\ status = "running" /\ pc \in DOMAIN Steps /\ Fails(This) /\ This = Steps[pc]
        /\ status' = "unwinding" /\ todo' = Unwind(Code.undo, This.label)
        /\ UNCHANGED <<fn, size, pc, live, junk, released>>
    BY DEF FailsSeen, Calls, Fails, This, Steps
  <1>2. RunningInv /\ Named
    BY <1>1 DEF FunctionInv
  <1>3. IsSeq(Steps) /\ Ordered(Code.undo, Left, Steps) /\ (Code.junk = {} \/ Exempt)
    BY DEF AllTidy, Tidy, Steps
  <1>4. /\ IsSeq(todo') /\ IsInjective(todo')
        /\ Code.given \subseteq ToSet(todo') \cup Left
    BY <1>1, SoundThis DEF Sound, Undone
  <1>5. ASSUME NEW q \in Before
        PROVE  /\ Gives(Steps[q]) \cap ToSet(todo') = {}
               /\ Makes(Steps[q]) => Steps[q].slot \in ToSet(todo') \cup Left \cup Passing
    <2>1. Follows(Code.undo, Left, Steps[q], This)
      BY <1>1, <1>3 DEF Ordered, Before
    <2>2. QED
      BY <1>1, <2>1 DEF Follows, Undone
  <1>6. ToSet(todo') \cap released = {}
    BY <1>2, <1>5 DEF RunningInv
  <1>7. ASSUME NEW x \in live PROVE x \in ToSet(todo') \cup Left
    <2>1. CASE x \in Code.given
      BY <1>4, <2>1
    <2>2. CASE \E q \in Before : Makes(Steps[q]) /\ Steps[q].slot = x
      <3>1. PICK q \in Before : Makes(Steps[q]) /\ Steps[q].slot = x
        BY <2>2
      <3>2. x \notin Passing
        BY <1>1, <1>2, <3>1, NotPassing
      <3>3. QED
        BY <1>5, <3>1, <3>2
    <2>3. QED
      BY <1>2, <2>1, <2>2 DEF RunningInv
  <1>8. junk' = {} \/ Exempt'
    BY <1>1, <1>2, <1>3, SameFunction DEF RunningInv
  <1>9. Left' = Left /\ Named'
    BY <1>1, <1>2, SameFunction
  <1>10. ReleasingInv(Left)'
    <2>1. released' = released /\ live' = live
      BY <1>1
    <2>2. QED
      BY <1>4, <1>6, <1>7, <1>9, <2>1 DEF ReleasingInv
  <1>11. status' = "unwinding"
    BY <1>1
  <1>12. QED
    BY <1>8, <1>9, <1>10, <1>11 DEF FunctionInv

LEMMA ReturnsKeeps ==
  ASSUME AllTidy, FunctionInv, Returns PROVE FunctionInv'
  <1>1. /\ status = "running" /\ pc > Len(Steps) /\ status' = "returned"
        /\ UNCHANGED <<fn, size, pc, todo, live, junk, released>>
    BY DEF Returns, Steps
  <1>2. RunningInv /\ Named
    BY <1>1 DEF FunctionInv
  <1>3. IsSeq(Steps)
    BY DEF AllTidy, Tidy, Steps
  <1>4. pc = Len(Steps) + 1
    BY <1>1, <1>2, <1>3, SeqFacts DEF RunningInv
  <1>5. Code' = Code /\ Steps' = Steps /\ Named'
    BY <1>1, <1>2, SameFunction
  <1>6. Before' = Before
    BY <1>1, <1>5 DEF Before
  <1>7. RunningInv'
    BY <1>1, <1>2, <1>5, <1>6 DEF RunningInv
  <1>8. QED
    BY <1>1, <1>4, <1>5, <1>7 DEF FunctionInv

\* When the function has returned, every step is behind it.
LEMMA AllBehind ==
  ASSUME AllTidy, FunctionInv, status = "returned"
  PROVE  /\ RunningInv /\ Ending(Steps, Code.destroy, Code.given, Code.junk, Optional)
         /\ \A s \in ToSet(Steps) : \E q \in Before : Steps[q] = s
         /\ \A q \in Before : Steps[q] \in ToSet(Steps)
  <1>1. RunningInv /\ pc = Len(Steps) + 1
    BY DEF FunctionInv
  <1>2. IsSeq(Steps) /\ Ending(Steps, Code.destroy, Code.given, Code.junk, Optional)
    BY DEF AllTidy, Tidy, Steps
  <1>3. Len(Steps) \in Nat /\ DOMAIN Steps = 1..Len(Steps)
    BY <1>2, SeqFacts
  <1>4. Before = DOMAIN Steps
    BY <1>1, <1>3 DEF Before
  <1>5. QED
    BY <1>1, <1>2, <1>4 DEF ToSet

LEMMA DestroyKeeps ==
  ASSUME AllTidy, FunctionInv, Destroy PROVE FunctionInv'
  <1>1. /\ status = "returned" /\ status' = "destroying" /\ todo' = Code.destroy
        /\ UNCHANGED <<fn, size, pc, live, junk, released>>
    BY DEF Destroy
  <1>2. /\ RunningInv /\ Ending(Steps, Code.destroy, Code.given, Code.junk, Optional)
        /\ \A s \in ToSet(Steps) : \E q \in Before : Steps[q] = s
        /\ \A q \in Before : Steps[q] \in ToSet(Steps)
    BY <1>1, AllBehind
  <1>3. IsSeq(todo') /\ IsInjective(todo')
    BY <1>1, <1>2 DEF Ending
  <1>4. \A q \in Before : Gives(Steps[q]) \cap ToSet(todo') = {}
    BY <1>1, <1>2 DEF Ending
  <1>5. ToSet(todo') \cap released = {}
    BY <1>2, <1>4 DEF RunningInv
  <1>6. ASSUME NEW x \in live PROVE x \in ToSet(todo')
    <2>1. \A s \in ToSet(Steps) : x \notin Gives(s)
      BY <1>2 DEF RunningInv
    <2>2. CASE x \in Code.given
      BY <1>1, <1>2, <2>1, <2>2 DEF Ending
    <2>3. CASE \E q \in Before : Makes(Steps[q]) /\ Steps[q].slot = x
      BY <1>1, <1>2, <2>1, <2>3 DEF Ending
    <2>4. QED
      BY <1>2, <2>2, <2>3 DEF RunningInv
  <1>7. junk = {}
    <2>1. SUFFICES ASSUME NEW x \in junk PROVE FALSE
      OBVIOUS
    <2>2. PICK s \in ToSet(Steps) : Writes(s) /\ s.slot = x
      BY <1>2 DEF RunningInv, Ending
    <2>3. QED
      BY <1>2, <2>2 DEF RunningInv
  <1>8. Named'
    BY <1>1, SameFunction DEF FunctionInv
  <1>9. ReleasingInv({})'
    <2>1. released' = released /\ live' = live
      BY <1>1
    <2>2. QED
      BY <1>3, <1>5, <1>6, <2>1 DEF ReleasingInv
  <1>10. status' = "destroying" /\ junk' = {}
    BY <1>1, <1>7
  <1>11. QED
    BY <1>8, <1>9, <1>10 DEF FunctionInv

LEMMA ReleaseOne ==
  ASSUME NEW left, ReleasingInv(left), Release
  PROVE  /\ IsSeq(todo') /\ IsInjective(todo') /\ ToSet(todo') \cap released' = {}
         /\ live' \subseteq ToSet(todo') \cup left
  <1>1. /\ todo # <<>> /\ todo' = Tail(todo) /\ live' = live \ {Head(todo)}
        /\ released' = released \cup ({Head(todo)} \cap live)
    BY DEF Release
  <1>2. /\ IsSeq(todo') /\ IsInjective(todo') /\ Head(todo) \notin ToSet(todo')
        /\ ToSet(todo') \subseteq ToSet(todo)
        /\ \A e \in ToSet(todo) : e = Head(todo) \/ e \in ToSet(todo')
    <2>1. IsSeq(todo) /\ IsInjective(todo)
      BY DEF ReleasingInv
    <2>2. QED
      BY <1>1, <2>1, TailFacts
  <1>3. QED
    BY <1>1, <1>2 DEF ReleasingInv

LEMMA ReleaseKeeps ==
  ASSUME AllTidy, FunctionInv, Release PROVE FunctionInv'
  <1>1. /\ todo # <<>> /\ UNCHANGED <<fn, size, status, pc, junk>>
    BY DEF Release
  <1>2. Named' /\ Left' = Left /\ (Exempt' <=> Exempt)
    BY <1>1, SameFunction DEF FunctionInv
  <1>3. \/ status = "unwinding" /\ ReleasingInv(Left) /\ (junk = {} \/ Exempt)
        \/ status = "destroying" /\ ReleasingInv({}) /\ junk = {}
    BY <1>1 DEF FunctionInv, RunningInv
  <1>4. CASE status = "unwinding" /\ ReleasingInv(Left) /\ (junk = {} \/ Exempt)
    <2>1. /\ IsSeq(todo') /\ IsInjective(todo') /\ ToSet(todo') \cap released' = {}
          /\ live' \subseteq ToSet(todo') \cup Left
      BY <1>4, ReleaseOne
    <2>2. ReleasingInv(Left)'
      BY <1>2, <2>1 DEF ReleasingInv
    <2>3. status' = "unwinding" /\ (junk' = {} \/ Exempt')
      BY <1>1, <1>2, <1>4
    <2>4. QED
      BY <1>2, <2>2, <2>3 DEF FunctionInv
  <1>5. CASE status = "destroying" /\ ReleasingInv({}) /\ junk = {}
    <2>1. /\ IsSeq(todo') /\ IsInjective(todo') /\ ToSet(todo') \cap released' = {}
          /\ live' \subseteq ToSet(todo') \cup {}
      BY <1>5, ReleaseOne
    <2>2. ReleasingInv({})'
      BY <2>1 DEF ReleasingInv
    <2>3. status' = "destroying" /\ junk' = {}
      BY <1>1, <1>5
    <2>4. QED
      BY <1>2, <2>2, <2>3 DEF FunctionInv
  <1>6. QED
    BY <1>3, <1>4, <1>5

LEMMA EndsKeeps ==
  ASSUME AllTidy, FunctionInv, Ends PROVE FunctionInv'
  <1>1. /\ status \in {"unwinding", "destroying"} /\ todo = <<>>
        /\ status' = IF status = "unwinding" THEN "failed" ELSE "destroyed"
        /\ UNCHANGED <<fn, size, pc, todo, live, junk, released>>
    BY DEF Ends
  <1>2. Named' /\ Left' = Left
    BY <1>1, SameFunction DEF FunctionInv
  <1>3. ToSet(todo) = {}
    BY <1>1, Written
  <1>4. CASE status = "unwinding"
    <2>1. live \subseteq Left
      BY <1>3, <1>4 DEF FunctionInv, ReleasingInv
    <2>2. QED
      BY <1>1, <1>2, <1>4, <2>1 DEF FunctionInv
  <1>5. CASE status = "destroying"
    <2>1. live = {}
      BY <1>3, <1>5 DEF FunctionInv, ReleasingInv
    <2>2. QED
      BY <1>1, <1>2, <1>5, <2>1 DEF FunctionInv
  <1>6. QED
    BY <1>1, <1>4, <1>5

LEMMA FailsUnseenKeeps ==
  ASSUME FunctionInv, FailsUnseen PROVE FunctionInv'
  <1>1. /\ status = "running" /\ status' = "crashed"
        /\ UNCHANGED <<fn, size, pc, todo, live, junk, released>>
    BY DEF FailsUnseen, Calls
  <1>2. Named' /\ todo' = <<>>
    BY <1>1, SameFunction DEF FunctionInv, RunningInv
  <1>3. QED
    BY <1>1, <1>2 DEF FunctionInv

LEMMA StutterKeeps ==
  ASSUME FunctionInv, UNCHANGED vars PROVE FunctionInv'
  <1>1. UNCHANGED <<fn, size, status, pc, todo, live, junk, released>>
    BY DEF vars
  <1>2. Code' = Code /\ Steps' = Steps /\ Left' = Left /\ (Exempt' <=> Exempt)
        /\ (Named' <=> Named)
    BY <1>1, SameFunction
  <1>3. Before' = Before
    BY <1>1, <1>2 DEF Before
  <1>4. RunningInv' <=> RunningInv
    BY <1>1, <1>2, <1>3 DEF RunningInv
  <1>5. (ReleasingInv(Left)' <=> ReleasingInv(Left)) /\ (ReleasingInv({})' <=> ReleasingInv({}))
    BY <1>1, <1>2 DEF ReleasingInv
  <1>6. QED
    BY <1>1, <1>2, <1>4, <1>5 DEF FunctionInv

LEMMA NextKeeps ==
  ASSUME AllTidy, FunctionInv, [Next]_vars PROVE FunctionInv'
  BY RunsOn, FailsSeenKeeps, FailsUnseenKeeps, ReturnsKeeps, DestroyKeeps, ReleaseKeeps,
     EndsKeeps, StutterKeeps DEF Next

\* What the invariant says about the three properties.
LEMMA InvReleasesOwn ==
  ASSUME FunctionInv PROVE ReleasesOwn
  <1>1. SUFFICES ASSUME todo # <<>>, Head(todo) \notin live
                 PROVE  /\ Head(todo) \notin released
                        /\ Head(todo) \in junk => status = "unwinding" /\ Exempt
    BY DEF ReleasesOwn, Exempt
  <1>2. \/ status = "unwinding" /\ ReleasingInv(Left) /\ (junk = {} \/ Exempt)
        \/ status = "destroying" /\ ReleasingInv({}) /\ junk = {}
    BY <1>1 DEF FunctionInv, RunningInv
  <1>3. IsSeq(todo) /\ ToSet(todo) \cap released = {}
    BY <1>2 DEF ReleasingInv
  <1>4. Head(todo) \in ToSet(todo)
    BY <1>1, <1>3, TailFacts
  <1>5. QED
    BY <1>2, <1>3, <1>4

LEMMA InvNothingLost ==
  ASSUME FunctionInv PROVE NothingLost
  BY DEF FunctionInv, NothingLost, Left

LEMMA InvReturnsWhole ==
  ASSUME AllTidy, FunctionInv PROVE ReturnsWhole
  <1>1. SUFFICES ASSUME status = "returned", NEW x \in ToSet(Code.destroy), x \notin Optional
                 PROVE  x \in live
    BY DEF ReturnsWhole
  <1>2. /\ RunningInv /\ Ending(Steps, Code.destroy, Code.given, Code.junk, Optional)
        /\ \A s \in ToSet(Steps) : \E q \in Before : Steps[q] = s
        /\ \A q \in Before : Steps[q] \in ToSet(Steps)
    BY <1>1, AllBehind
  <1>3. PICK s \in ToSet(Steps) : Surely(s) /\ s.slot = x
    BY <1>1, <1>2 DEF Ending
  <1>4. \A q \in Before : x \notin Gives(Steps[q])
    BY <1>1, <1>2 DEF Ending
  <1>5. PICK q \in Before : Steps[q] = s
    BY <1>2
  <1>6. QED
    BY <1>2, <1>3, <1>4, <1>5 DEF RunningInv

-----------------------------------------------------------------------------
(* Functions of the Vulkan helpers.                                        *)

LEMMA SingleTidy ==
  ASSUME NEW left, NEW optional, NEW exempt, NEW name, name # "none"
  PROVE  Tidy(Single(<<name>>), left, optional, exempt)
  <1> DEFINE slot == <<name>>
             a == Get(slot, "return")
  <1>1. Single(slot) = Function(<<a>>, <<>>, <<slot>>)
    BY DEF Single
  <1>2. slot # none /\ slot \notin Passing
    BY SlotsApart
  <1>3. Stage(<<>>, left, <<a>>, {a}) /\ Lists(<<slot>>, {slot})
    BY StageOne, ListsWritten
  <1>4. /\ a.slot = slot /\ a.from = {} /\ Makes(a) /\ Surely(a) /\ Gives(a) = {}
    BY <1>2, GetFacts
  <1>5. Lists(Unwind(<<>>, a.label), {})
    BY UnwindsNone
  <1> HIDE DEF a, slot
  <1>6. Plain(<<>>, {a}, {slot}, optional)
    BY <1>4, <1>5 DEF Plain
  <1>7. Tidy(Function(<<a>>, <<>>, <<slot>>), left, optional, exempt)
    BY <1>2, <1>3, <1>4, <1>6, TidyPlain
  <1>8. QED
    BY <1>1, <1>7 DEF slot

LEMMA PhdevTidy ==
  ASSUME NEW left, NEW optional, NEW exempt
  PROVE  Tidy(kmr_vk_phdev_create, left, optional, exempt)
  <1> DEFINE S == Tries(4, "return")
             steps == TryEach(4, "return")
  <1>1. Stage(<<>>, left, steps, S)
    <2>1. 4 \in Nat
      OBVIOUS
    <2>2. QED
      BY <2>1, StageTryEach
  <1>2. Lists(<<>>, {})
    BY ListsWritten
  <1>3. Plain(<<>>, S, {}, optional) /\ \A s \in S : ~Makes(s)
    BY TriesFacts, UnwindsNone DEF Plain
  <1> HIDE DEF S, steps
  <1>4. Tidy(Function(steps, <<>>, <<>>), left, optional, exempt)
    BY <1>1, <1>2, <1>3, TidyPlain
  <1>5. QED
    BY <1>4 DEF kmr_vk_phdev_create, steps

LEMMA LgdevTidy ==
  ASSUME NEW left, NEW optional, NEW exempt, NEW n \in Nat
  PROVE  Tidy(kmr_vk_lgdev_create(n), left, optional, exempt)
  <1> DEFINE info == <<"queueCreateInfo">>
             device == <<"device">>
             undo == <<At("destroy", <<device>>), At("free_queueCreateInfo", <<info>>)>>
             a == Get(info, "create")
             b == Get(device, "free_queueCreateInfo")
             c == Free(info)
             T == Tries(n, "destroy")
             steps == <<a, b>> \o TryEach(n, "destroy") \o <<c>>
             S == ({a, b} \cup T) \cup {c}
  <1>1. kmr_vk_lgdev_create(n) = Function(steps, undo, <<device>>)
    BY DEF kmr_vk_lgdev_create
  <1>2. info # device /\ info # none /\ device # none /\ info \notin Passing /\ device \notin Passing
    BY SlotsApart
  <1>3. /\ Lists(Unwind(undo, "destroy"), {device} \cup {info})
        /\ Lists(Unwind(undo, "free_queueCreateInfo"), {info})
        /\ Lists(Unwind(undo, "create"), {})
    <2>1. Lists(<<device>>, {device}) /\ Lists(<<info>>, {info}) /\ {device} \cap {info} = {}
      BY <1>2, ListsWritten
    <2>2. "create" \notin {"destroy", "free_queueCreateInfo"}
      OBVIOUS
    <2> HIDE DEF device, info
    <2>3. QED
      BY <2>1, <2>2, UnwindsTwo
  <1>4. /\ a.slot = info /\ a.from = {} /\ Makes(a) /\ Surely(a) /\ Gives(a) = {} /\ a.label = "create"
        /\ b.slot = device /\ b.from = {} /\ Makes(b) /\ Surely(b) /\ Gives(b) = {}
        /\ b.label = "free_queueCreateInfo"
        /\ c.from = {} /\ ~Makes(c) /\ ~Fails(c) /\ Gives(c) = {info}
    BY <1>2, GetFacts, FreeFacts
  <1>5. \A t \in T : t.from = {} /\ ~Makes(t) /\ Gives(t) = {} /\ t.label = "destroy"
    BY TriesFacts
  <1>6. Stage(undo, left, TryEach(n, "destroy"), T)
    BY StageTryEach
  <1> HIDE DEF info, device, undo, a, b, c, T
  <1>7. Undone(undo, b) = {info} /\ \A t \in T : Undone(undo, t) = {device, info}
    BY <1>3, <1>4, <1>5 DEF Undone, Lists
  <1>8. Stage(undo, left, steps, S)
    <2>1. Stage(undo, left, <<a, b>>, {a, b})
      BY <1>4, <1>7, StageTwo DEF Follows
    <2>2. Stage(undo, left, <<c>>, {c})
      BY StageOne
    <2>3. \A x \in {a, b}, y \in T : Follows(undo, left, x, y)
      BY <1>4, <1>5, <1>7 DEF Follows
    <2>4. Stage(undo, left, <<a, b>> \o TryEach(n, "destroy"), {a, b} \cup T)
      BY <1>6, <2>1, <2>3, StageConcat
    <2>5. \A x \in {a, b} \cup T, y \in {c} : Follows(undo, left, x, y)
      BY <1>4, FollowsAny
    <2>6. QED
      BY <2>2, <2>4, <2>5, StageConcat
  <1>9. Lists(<<device>>, {device})
    BY ListsWritten
  <1>10. Plain(undo, S, {device}, optional) /\ \A s \in S : Makes(s) => s.slot \notin Passing
    BY <1>2, <1>3, <1>4, <1>5 DEF Plain
  <1>11. QED
    BY <1>1, <1>8, <1>9, <1>10, TidyPlain

LEMMA FramebufferTidy ==
  ASSUME NEW left, NEW optional, NEW exempt, NEW n \in Nat
  PROVE  Tidy(kmr_vk_framebuffer_create(n), left, optional, exempt)
  <1> DEFINE handles == <<"framebufferHandles">>
             E == Slots("framebuffer", n)
             D == E \cup {handles}
             destroy == Each("framebuffer", n) \o <<handles>>
             undo == <<At("destroy_framebuffer", destroy)>>
             a == Get(handles, "framebuffer")
             T == Gets("framebuffer", n, "destroy_framebuffer")
             steps == <<a>> \o GetEach("framebuffer", n, "destroy_framebuffer")
             S == {a} \cup T
  <1>1. kmr_vk_framebuffer_create(n) = Function(steps, undo, destroy)
    BY DEF kmr_vk_framebuffer_create
  <1>2. handles # none /\ handles \notin Passing /\ handles \notin E /\ E \cap Passing = {}
    BY SlotsApart
  <1>3. Lists(destroy, D)
    <2>1. Lists(Each("framebuffer", n), E) /\ Lists(<<handles>>, {handles})
      BY ListsEach, ListsWritten
    <2>2. QED
      BY <1>2, <2>1, ListsConcat
  <1>4. /\ a.slot = handles /\ a.from = {} /\ Makes(a) /\ Surely(a) /\ Gives(a) = {}
        /\ a.label = "framebuffer"
    BY <1>2, GetFacts
  <1>5. /\ \A s \in T : /\ s.slot \in E /\ s.from = {} /\ s.label = "destroy_framebuffer"
                        /\ Makes(s) /\ Surely(s) /\ Gives(s) = {}
        /\ \A x \in E : \E s \in T : s.slot = x
    BY GetsFacts
  <1> HIDE DEF handles, E, destroy, a, T
  <1>6. Lists(Unwind(undo, "destroy_framebuffer"), D) /\ Lists(Unwind(undo, "framebuffer"), {})
    BY <1>3, UnwindsOne
  <1>7. Stage(undo, left, GetEach("framebuffer", n, "destroy_framebuffer"), T)
    BY <1>6, StageGetEach DEF T, E, Lists
  <1> HIDE DEF undo
  <1>8. Stage(undo, left, steps, S)
    <2>1. Stage(undo, left, <<a>>, {a})
      BY StageOne
    <2>2. \A x \in {a}, y \in T : Follows(undo, left, x, y)
      BY <1>4, <1>5, <1>6 DEF Follows, Undone, Lists
    <2>3. QED
      BY <1>7, <2>1, <2>2, StageConcat
  <1>9. Plain(undo, S, D, optional) /\ \A s \in S : Makes(s) => s.slot \notin Passing
    BY <1>2, <1>4, <1>5, <1>6 DEF Plain
  <1>10. QED
    BY <1>1, <1>3, <1>8, <1>9, TidyPlain

LEMMA PoolTidy ==
  ASSUME NEW left, NEW optional, NEW exempt, NEW name, name \notin {"pool", "none"}
  PROVE  Tidy(Pool(<<name>>), left, optional, exempt)
  <1> DEFINE handles == <<name>>
             pool == <<"pool">>
             undo == <<At("destroy_pool", <<pool>>)>>
             a == Get(pool, "return")
             b == Try("destroy_pool")
             c == Get(handles, "destroy_pool")
             steps == <<a, b, c>>
             S == {a, b, c}
  <1>1. Pool(handles) = Function(steps, undo, <<pool, handles>>)
    BY DEF Pool
  <1>2. /\ handles # none /\ handles \notin Passing /\ pool # none /\ pool \notin Passing
        /\ pool # handles
    BY SlotsApart
  <1>3. /\ a.slot = pool /\ a.from = {} /\ Makes(a) /\ Surely(a) /\ Gives(a) = {}
        /\ a.label = "return"
        /\ b.from = {} /\ ~Makes(b) /\ Gives(b) = {} /\ b.label = "destroy_pool"
        /\ c.slot = handles /\ c.from = {} /\ Makes(c) /\ Surely(c) /\ Gives(c) = {}
        /\ c.label = "destroy_pool"
    BY <1>2, GetFacts, TryFacts
  <1> HIDE DEF handles, pool, a, b, c
  <1>4. Lists(<<pool, handles>>, {pool, handles}) /\ Lists(<<pool>>, {pool})
    BY <1>2, ListsWritten
  <1>5. Lists(Unwind(undo, "destroy_pool"), {pool}) /\ Lists(Unwind(undo, "return"), {})
    BY <1>4, UnwindsOne
  <1> HIDE DEF undo
  <1>6. Stage(undo, left, steps, S)
    <2>1. Follows(undo, left, a, b) /\ \A x \in {a, b} : Follows(undo, left, x, c)
      BY <1>3, <1>5 DEF Follows, Undone, Lists
    <2>2. QED
      BY <2>1, StageThree
  <1>7. Plain(undo, S, {pool, handles}, optional) /\ \A s \in S : Makes(s) => s.slot \notin Passing
    BY <1>2, <1>3, <1>5 DEF Plain
  <1>8. Tidy(Pool(handles), left, optional, exempt)
    BY <1>1, <1>4, <1>6, <1>7, TidyPlain
  <1>9. QED
    BY <1>8 DEF handles

LEMMA SyncObjTidy ==
  ASSUME NEW left, NEW optional, NEW exempt, NEW n \in Nat
  PROVE  Tidy(kmr_vk_sync_obj_create(n), left, optional, exempt)
  <1> DEFINE fences == <<"fenceHandles">>
             semaphores == <<"semaphoreHandles">>
             F == Slots("fence", n)
             M == Slots("semaphore", n)
             D == (F \cup M) \cup {fences, semaphores}
             destroy == Each("fence", n) \o Each("semaphore", n) \o <<fences, semaphores>>
             undo == <<At("destroy_semaphore", Each("semaphore", n)),
                       At("destroy_fence", Each("fence", n)),
                       At("free_sync_handles", <<semaphores, fences>>)>>
             a == Get(fences, "sync_obj")
             b == Get(semaphores, "free_sync_handles")
             T == Gets("fence", n, "destroy_fence")
             R == Gets("semaphore", n, "destroy_semaphore")
             steps == <<a, b>> \o GetEach("fence", n, "destroy_fence")
                        \o GetEach("semaphore", n, "destroy_semaphore")
             S == ({a, b} \cup T) \cup R
  <1>1. kmr_vk_sync_obj_create(n) = Function(steps, undo, destroy)
    BY DEF kmr_vk_sync_obj_create
  <1>2. /\ fences # none /\ semaphores # none /\ fences # semaphores
        /\ fences \notin Passing /\ semaphores \notin Passing
        /\ fences \notin F \cup M /\ semaphores \notin F \cup M
        /\ F \cap Passing = {} /\ M \cap Passing = {} /\ F \cap M = {}
    BY SlotsApart
  <1>3. /\ Lists(Each("fence", n), F) /\ Lists(Each("semaphore", n), M)
        /\ Lists(<<fences, semaphores>>, {fences, semaphores})
        /\ Lists(<<semaphores, fences>>, {semaphores, fences})
    BY <1>2, ListsEach, ListsWritten
  <1>4. /\ a.slot = fences /\ a.from = {} /\ Makes(a) /\ Surely(a) /\ Gives(a) = {}
        /\ a.label = "sync_obj"
        /\ b.slot = semaphores /\ b.from = {} /\ Makes(b) /\ Surely(b) /\ Gives(b) = {}
        /\ b.label = "free_sync_handles"
    BY <1>2, GetFacts
  <1>5. /\ \A s \in T : /\ s.slot \in F /\ s.from = {} /\ s.label = "destroy_fence"
                        /\ Makes(s) /\ Surely(s) /\ Gives(s) = {}
        /\ \A x \in F : \E s \in T : s.slot = x
    BY GetsFacts
  <1>6. /\ \A s \in R : /\ s.slot \in M /\ s.from = {} /\ s.label = "destroy_semaphore"
                        /\ Makes(s) /\ Surely(s) /\ Gives(s) = {}
        /\ \A x \in M : \E s \in R : s.slot = x
    BY GetsFacts
  <1> HIDE DEF fences, semaphores, F, M, a, b, T, R
  <1>7. /\ Lists(Unwind(undo, "destroy_semaphore"), (M \cup F) \cup {semaphores, fences})
        /\ Lists(Unwind(undo, "destroy_fence"), F \cup {semaphores, fences})
        /\ Lists(Unwind(undo, "free_sync_handles"), {semaphores, fences})
        /\ Lists(Unwind(undo, "sync_obj"), {})
    <2>1. M \cap F = {} /\ M \cap {semaphores, fences} = {} /\ F \cap {semaphores, fences} = {}
      BY <1>2
    <2>2. "sync_obj" \notin {"destroy_semaphore", "destroy_fence", "free_sync_handles"}
      OBVIOUS
    <2>3. QED
      BY <1>3, <2>1, <2>2, UnwindsThree
  <1>8. Lists(destroy, D)
    <2>1. Lists(Each("fence", n) \o Each("semaphore", n), F \cup M)
      BY <1>2, <1>3, ListsConcat
    <2>2. (F \cup M) \cap {fences, semaphores} = {}
      BY <1>2
    <2>3. QED
      BY <1>3, <2>1, <2>2, ListsConcat
  <1> HIDE DEF undo
  <1>9. /\ Stage(undo, left, GetEach("fence", n, "destroy_fence"), T)
        /\ Stage(undo, left, GetEach("semaphore", n, "destroy_semaphore"), R)
    <2>1. /\ F \subseteq ToSet(Unwind(undo, "destroy_fence")) \cup left
          /\ M \subseteq ToSet(Unwind(undo, "destroy_semaphore")) \cup left
      BY <1>7 DEF Lists
    <2>2. QED
      BY <2>1, StageGetEach DEF T, R, F, M
  <1>10. Stage(undo, left, steps, S)
    <2>1. Stage(undo, left, <<a, b>>, {a, b})
      BY <1>4, <1>7, StageTwo DEF Follows, Undone, Lists
    <2>2. \A x \in {a, b}, y \in T : Follows(undo, left, x, y)
      BY <1>4, <1>5, <1>7 DEF Follows, Undone, Lists
    <2>3. \A x \in {a, b} \cup T, y \in R : Follows(undo, left, x, y)
      BY <1>4, <1>5, <1>6, <1>7 DEF Follows, Undone, Lists
    <2>4. Stage(undo, left, <<a, b>> \o GetEach("fence", n, "destroy_fence"), {a, b} \cup T)
      BY <1>9, <2>1, <2>2, StageConcat
    <2>5. QED
      BY <1>9, <2>3, <2>4, StageConcat
  <1>11. Plain(undo, S, D, optional) /\ \A s \in S : Makes(s) => s.slot \notin Passing
    BY <1>2, <1>4, <1>5, <1>6, <1>7 DEF Plain
  <1>12. QED
    BY <1>1, <1>8, <1>10, <1>11, TidyPlain

\* A buffer without memory is known to be left.
LEMMA BufferTidy ==
  ASSUME NEW left, <<"buffer">> \in left, NEW optional, NEW exempt
  PROVE  Tidy(kmr_vk_buffer_create, left, optional, exempt)
  <1> DEFINE buffer == <<"buffer">>
             deviceMemory == <<"deviceMemory">>
             a == Get(buffer, "return")
             b == Try("return")
             c == Get(deviceMemory, "return")
             steps == <<a, b, c>>
             S == {a, b, c}
  <1>1. kmr_vk_buffer_create = Function(steps, <<>>, <<buffer, deviceMemory>>)
    BY DEF kmr_vk_buffer_create
  <1>2. /\ buffer # none /\ deviceMemory # none /\ buffer # deviceMemory
        /\ buffer \notin Passing /\ deviceMemory \notin Passing /\ buffer \in left
    BY SlotsApart
  <1>3. /\ a.slot = buffer /\ a.from = {} /\ Makes(a) /\ Surely(a) /\ Gives(a) = {}
        /\ b.from = {} /\ ~Makes(b) /\ Gives(b) = {}
        /\ c.slot = deviceMemory /\ c.from = {} /\ Makes(c) /\ Surely(c) /\ Gives(c) = {}
    BY <1>2, GetFacts, TryFacts
  <1> HIDE DEF buffer, deviceMemory, a, b, c
  <1>4. Lists(<<buffer, deviceMemory>>, {buffer, deviceMemory}) /\ \A label : Lists(Unwind(<<>>, label), {})
    BY <1>2, ListsWritten, UnwindsNone
  <1>5. Stage(<<>>, left, steps, S)
    <2>1. Follows(<<>>, left, a, b) /\ \A x \in {a, b} : Follows(<<>>, left, x, c)
      BY <1>2, <1>3 DEF Follows
    <2>2. QED
      BY <2>1, StageThree
  <1>6. Plain(<<>>, S, {buffer, deviceMemory}, optional) /\ \A s \in S : Makes(s) => s.slot \notin Passing
    BY <1>2, <1>3, <1>4 DEF Plain
  <1>7. QED
    BY <1>1, <1>4, <1>5, <1>6, TidyPlain

\* The descriptor stays the caller's when the import fails.
LEMMA ImportSyncFdTidy ==
  ASSUME NEW left, <<"syncFd">> \in left, NEW optional, NEW exempt
  PROVE  Tidy(kmr_vk_sync_obj_import_external_sync_fd, left, optional, exempt)
  <1> DEFINE fd == <<"syncFd">>
             a == GetFrom(none, {fd}, "return")
             c == kmr_vk_sync_obj_import_external_sync_fd
  <1>1. /\ c.steps = <<a>> /\ c.undo = <<>> /\ c.destroy = <<>>
        /\ c.given = {fd} /\ c.junk = {}
    BY DEF kmr_vk_sync_obj_import_external_sync_fd, Function
  <1>2. a.does = "get" /\ a.from = {fd} /\ ~Makes(a) /\ ~Surely(a) /\ Gives(a) = {fd}
    BY GetFromFacts
  <1> HIDE DEF a, c, fd
  <1>3. Stage(<<>>, left, <<a>>, {a}) /\ Lists(<<>>, {}) /\ Lists(Unwind(<<>>, a.label), {})
    BY StageOne, ListsWritten, UnwindsNone
  <1>4. Sound(<<>>, {fd}, left, a)
    BY <1>2, <1>3 DEF Sound, Lists, fd
  <1>5. Passes(<<a>>)
    BY <1>2, <1>3, NonePass DEF Stage
  <1>6. Ending(<<a>>, <<>>, {fd}, {}, optional)
    BY <1>2, <1>3 DEF Ending, Lists, Stage
  <1>7. Tidy(c, left, optional, exempt)
    BY <1>1, <1>3, <1>4, <1>5, <1>6 DEF Tidy, Stage
  <1>8. QED
    BY <1>7 DEF c

LEMMA QueryTidy ==
  ASSUME NEW left, NEW optional, NEW exempt, NEW name, name # "none"
  PROVE  Tidy(Query(<<name>>), left, optional, exempt)
  <1> DEFINE array == <<name>>
             undo == <<At("free", <<array>>)>>
             a == Try("return")
             b == Get(array, "return")
             c == Try("free")
             steps == <<a, b, c>>
             S == {a, b, c}
  <1>1. Query(array) = Function(steps, undo, <<array>>)
    BY DEF Query
  <1>2. array # none /\ array \notin Passing
    BY SlotsApart
  <1>3. /\ a.from = {} /\ ~Makes(a) /\ Gives(a) = {} /\ a.label = "return"
        /\ b.slot = array /\ b.from = {} /\ Makes(b) /\ Surely(b) /\ Gives(b) = {}
        /\ b.label = "return"
        /\ c.from = {} /\ ~Makes(c) /\ Gives(c) = {} /\ c.label = "free"
    BY <1>2, GetFacts, TryFacts
  <1> HIDE DEF array, a, b, c
  <1>4. /\ Lists(<<array>>, {array})
        /\ Lists(Unwind(undo, "free"), {array}) /\ Lists(Unwind(undo, "return"), {})
    BY ListsWritten, UnwindsOne
  <1> HIDE DEF undo
  <1>5. Stage(undo, left, steps, S)
    <2>1. Follows(undo, left, a, b) /\ \A x \in {a, b} : Follows(undo, left, x, c)
      BY <1>3, <1>4 DEF Follows, Undone, Lists
    <2>2. QED
      BY <2>1, StageThree
  <1>6. Plain(undo, S, {array}, optional) /\ \A s \in S : Makes(s) => s.slot \notin Passing
    BY <1>2, <1>3, <1>4 DEF Plain
  <1>7. Tidy(Query(array), left, optional, exempt)
    BY <1>1, <1>4, <1>5, <1>6, TidyPlain
  <1>8. QED
    BY <1>7 DEF array

-----------------------------------------------------------------------------
(* Images.                                                                 *)

imageHandles == <<"imageHandles">>
viewHandles  == <<"imageViewHandles">>
ViewSteps(n) ==
  {Get(imageHandles, "free_images"), Get(viewHandles, "free_images")}
    \cup Gets("view", n, "free_image_views")
ViewSlots(n) == {imageHandles, viewHandles} \cup Slots("view", n)

LEMMA ViewFacts ==
  ASSUME NEW n
  PROVE  /\ \A s \in ViewSteps(n) :
              /\ s.slot \in ViewSlots(n) /\ s.from = {} /\ Makes(s) /\ Surely(s) /\ Gives(s) = {}
              /\ s.slot \notin Passing
              /\ \/ s.label = "free_images" /\ s.slot \in {imageHandles, viewHandles}
                 \/ s.label = "free_image_views"
         /\ \A x \in ViewSlots(n) : \E s \in ViewSteps(n) : s.slot = x
  <1> DEFINE a == Get(imageHandles, "free_images")
             b == Get(viewHandles, "free_images")
  <1>1. /\ imageHandles # none /\ imageHandles \notin Passing
        /\ viewHandles # none /\ viewHandles \notin Passing
        /\ Slots("view", n) \cap Passing = {}
    BY SlotsApart DEF imageHandles, viewHandles
  <1>2. /\ a.slot = imageHandles /\ a.from = {} /\ Makes(a) /\ Surely(a) /\ Gives(a) = {}
        /\ a.label = "free_images"
        /\ b.slot = viewHandles /\ b.from = {} /\ Makes(b) /\ Surely(b) /\ Gives(b) = {}
        /\ b.label = "free_images"
    BY <1>1, GetFacts
  <1> HIDE DEF a, b
  <1>3. ViewSteps(n) = {a, b} \cup Gets("view", n, "free_image_views")
    BY DEF ViewSteps, a, b
  <1>4. /\ \A s \in Gets("view", n, "free_image_views") :
             /\ s.slot \in Slots("view", n) /\ s.from = {} /\ s.label = "free_image_views"
             /\ Makes(s) /\ Surely(s) /\ Gives(s) = {}
        /\ \A x \in Slots("view", n) : \E s \in Gets("view", n, "free_image_views") : s.slot = x
    BY GetsFacts
  <1>5. QED
    BY <1>1, <1>2, <1>3, <1>4 DEF ViewSlots

LEMMA StageViews ==
  ASSUME NEW undo, NEW left, NEW n \in Nat,
         imageHandles \in ToSet(Unwind(undo, "free_images")),
         ViewSlots(n) \subseteq ToSet(Unwind(undo, "free_image_views"))
  PROVE  Stage(undo, left, views(n), ViewSteps(n))
  <1> DEFINE a == Get(imageHandles, "free_images")
             b == Get(viewHandles, "free_images")
             T == Gets("view", n, "free_image_views")
             G == GetEach("view", n, "free_image_views")
  <1>1. /\ ViewSteps(n) = {a, b} \cup T /\ views(n) = <<a, b>> \o G
    BY DEF ViewSteps, views, imageHandles, viewHandles
  <1>2. a \in ViewSteps(n) /\ b \in ViewSteps(n) /\ T \subseteq ViewSteps(n)
    BY <1>1
  <1>3. /\ a.slot = imageHandles /\ a.label = "free_images" /\ b.label = "free_images"
        /\ \A s \in T : s.label = "free_image_views"
    BY GetFacts, GetsFacts
  <1>4. \A s \in ViewSteps(n) : s.slot \in ViewSlots(n) /\ Makes(s) /\ Gives(s) = {}
    BY ViewFacts
  <1>5. Stage(undo, left, G, T)
    <2>1. Slots("view", n) \subseteq ToSet(Unwind(undo, "free_image_views")) \cup left
      BY DEF ViewSlots
    <2>2. QED
      BY <2>1, StageGetEach
  <1> HIDE DEF a, b, T, G
  <1>6. Stage(undo, left, <<a, b>>, {a, b})
    <2>1. Follows(undo, left, a, b)
      BY <1>2, <1>3, <1>4 DEF Follows, Undone
    <2>2. QED
      BY <2>1, StageTwo
  <1>7. \A x \in {a, b}, y \in T : Follows(undo, left, x, y)
    BY <1>2, <1>3, <1>4 DEF Follows, Undone
  <1>8. Stage(undo, left, <<a, b>> \o G, {a, b} \cup T)
    BY <1>5, <1>6, <1>7, StageConcat
  <1>9. QED
    BY <1>1, <1>8

LEMMA SwapchainImageTidy ==
  ASSUME NEW left, NEW optional, NEW exempt, NEW n \in Nat
  PROVE  Tidy(swapchain_image_create(n), left, optional, exempt)
  <1> DEFINE V == Slots("view", n)
             undo == <<free_image_views(n), At("free_images", <<imageHandles>>)>>
             destroy == Each("view", n) \o <<imageHandles, viewHandles>>
             T == Tries(2, "return")
             steps == TryEach(2, "return") \o views(n)
             S == T \cup ViewSteps(n)
  <1>1. swapchain_image_create(n) = Function(steps, undo, destroy)
    BY DEF swapchain_image_create, imageHandles, viewHandles
  <1>2. /\ imageHandles # viewHandles /\ imageHandles \notin V /\ viewHandles \notin V
    BY SlotsApart DEF imageHandles, viewHandles
  <1>3. /\ Lists(Each("view", n), V) /\ Lists(<<viewHandles>>, {viewHandles})
        /\ Lists(<<imageHandles>>, {imageHandles})
        /\ Lists(<<imageHandles, viewHandles>>, {imageHandles, viewHandles})
    BY <1>2, ListsEach, ListsWritten
  <1> HIDE DEF V, T
  <1>4. /\ Lists(Each("view", n) \o <<viewHandles>>, V \cup {viewHandles})
        /\ Lists(destroy, V \cup {imageHandles, viewHandles})
    <2>1. V \cap {viewHandles} = {} /\ V \cap {imageHandles, viewHandles} = {}
      BY <1>2
    <2>2. QED
      BY <1>3, <2>1, ListsConcat
  <1>5. /\ Lists(Unwind(undo, "free_image_views"), (V \cup {viewHandles}) \cup {imageHandles})
        /\ Lists(Unwind(undo, "free_images"), {imageHandles})
        /\ Lists(Unwind(undo, "return"), {})
    <2>1. /\ free_image_views(n) = At("free_image_views", Each("view", n) \o <<viewHandles>>)
          /\ (V \cup {viewHandles}) \cap {imageHandles} = {}
      BY <1>2 DEF free_image_views, viewHandles
    <2>2. "return" \notin {"free_image_views", "free_images"}
      OBVIOUS
    <2>3. QED
      BY <1>3, <1>4, <2>1, <2>2, UnwindsTwo
  <1> HIDE DEF undo
  <1>6. Stage(undo, left, steps, S)
    <2>1. Stage(undo, left, views(n), ViewSteps(n))
      BY <1>5, StageViews DEF Lists, ViewSlots, V
    <2>2. Stage(undo, left, TryEach(2, "return"), T)
      BY StageTryEach DEF T
    <2>3. \A x \in T, y \in ViewSteps(n) : Follows(undo, left, x, y)
      BY TriesFacts DEF T, Follows
    <2>4. QED
      BY <2>1, <2>2, <2>3, StageConcat
  <1>7. /\ Plain(undo, S, V \cup {imageHandles, viewHandles}, optional)
        /\ \A s \in S : Makes(s) => s.slot \notin Passing
    <2>1. ViewSlots(n) = V \cup {imageHandles, viewHandles}
      BY DEF ViewSlots, V
    <2>2. \A t \in T : t.from = {} /\ ~Makes(t) /\ Gives(t) = {} /\ t.label = "return"
      BY TriesFacts DEF T
    <2>3. QED
      BY <1>5, <2>1, <2>2, ViewFacts DEF Plain
  <1>8. QED
    BY <1>1, <1>4, <1>6, <1>7, TidyPlain

\* What is made for block p of image i, and for image i.
dupFd(i, p) == <<"dupFd", i, p>>
MemorySteps(i, p, dmabuf) ==
  IF dmabuf
  THEN {Get(dupFd(i, p), "free_images"), Try("free_images"),
        GetFrom(memory(i, p), {dupFd(i, p)}, "free_images")}
  ELSE {Try("free_images"), Get(memory(i, p), "free_images")}
ImageSteps(i, planes, dmabuf) ==
  {Get(<<"image", i>>, "free_images"), Set(<<"memoryCount", i>>)}
    \cup UNION {MemorySteps(i, p, dmabuf) : p \in 1..planes}
ImageSlots(i, planes) ==
  {<<"image", i>>, <<"memoryCount", i>>} \cup {memory(i, p) : p \in 1..planes}

LEMMA MemoryFacts ==
  ASSUME NEW i, NEW p, NEW dmabuf \in BOOLEAN
  PROVE  /\ \A s \in MemorySteps(i, p, dmabuf) :
              /\ s.from = {} \/ (s.does = "get" /\ s.slot \notin s.from)
              /\ Fails(s) /\ s.label = "free_images"
              /\ Makes(s) => s.slot = memory(i, p) \/ (dmabuf /\ s.slot = dupFd(i, p))
              /\ Gives(s) \subseteq {dupFd(i, p)}
         /\ \E s \in MemorySteps(i, p, dmabuf) : Surely(s) /\ Writes(s) /\ s.slot = memory(i, p)
         /\ dmabuf => \E s \in MemorySteps(i, p, dmabuf) : dupFd(i, p) \in Gives(s)
  <1> DEFINE a == Get(dupFd(i, p), "free_images")
             t == Try("free_images")
             b == GetFrom(memory(i, p), {dupFd(i, p)}, "free_images")
             c == Get(memory(i, p), "free_images")
             M == MemorySteps(i, p, dmabuf)
  <1>1. memory(i, p) # none /\ dupFd(i, p) # none /\ memory(i, p) # dupFd(i, p)
    BY SlotsApart DEF memory, dupFd
  <1>2. /\ a.slot = dupFd(i, p) /\ a.from = {} /\ Gives(a) = {} /\ Fails(a) /\ a.label = "free_images"
        /\ t.from = {} /\ Gives(t) = {} /\ Fails(t) /\ t.label = "free_images" /\ ~Makes(t)
        /\ c.slot = memory(i, p) /\ c.from = {} /\ Gives(c) = {} /\ Fails(c)
        /\ c.label = "free_images" /\ Surely(c) /\ Writes(c)
    BY <1>1, GetFacts, TryFacts
  <1>3. /\ b.slot = memory(i, p) /\ b.from = {dupFd(i, p)} /\ b.does = "get" /\ Fails(b)
        /\ Gives(b) = {dupFd(i, p)} /\ b.label = "free_images" /\ Surely(b) /\ Writes(b)
    BY <1>1, GetFromFacts
  <1>4. M = IF dmabuf THEN {a, t, b} ELSE {t, c}
    BY DEF MemorySteps
  <1> HIDE DEF a, t, b, c, M
  <1>5. /\ \A s \in M :
             /\ s.from = {} \/ (s.does = "get" /\ s.slot \notin s.from)
             /\ Fails(s) /\ s.label = "free_images"
             /\ Makes(s) => s.slot = memory(i, p) \/ (dmabuf /\ s.slot = dupFd(i, p))
             /\ Gives(s) \subseteq {dupFd(i, p)}
        /\ \E s \in M : Surely(s) /\ Writes(s) /\ s.slot = memory(i, p)
        /\ dmabuf => \E s \in M : dupFd(i, p) \in Gives(s)
    BY <1>1, <1>2, <1>3, <1>4
  <1>6. QED
    BY <1>5 DEF M

LEMMA StageMemory ==
  ASSUME NEW undo, NEW left, NEW i, NEW p, NEW dmabuf \in BOOLEAN,
         dmabuf => dupFd(i, p) \in left
  PROVE  Stage(undo, left, image_memory(i, p, dmabuf), MemorySteps(i, p, dmabuf))
  <1> DEFINE a == Get(dupFd(i, p), "free_images")
             t == Try("free_images")
             b == GetFrom(memory(i, p), {dupFd(i, p)}, "free_images")
             c == Get(memory(i, p), "free_images")
  <1>1. CASE dmabuf
    <2>1. /\ a.slot = dupFd(i, p) /\ Gives(a) = {} /\ Gives(t) = {} /\ ~Makes(t)
          /\ b.slot = memory(i, p)
      BY GetFacts, TryFacts, GetFromFacts
    <2>2. image_memory(i, p, dmabuf) = <<a, t, b>> /\ MemorySteps(i, p, dmabuf) = {a, t, b}
      BY <1>1 DEF image_memory, MemorySteps, dupFd
    <2> HIDE DEF a, t, b, c
    <2>3. Follows(undo, left, a, t) /\ \A x \in {a, t} : Follows(undo, left, x, b)
      BY <1>1, <2>1 DEF Follows
    <2>4. QED
      BY <2>2, <2>3, StageThree
  <1>2. CASE ~dmabuf
    <2>1. Gives(t) = {} /\ ~Makes(t)
      BY TryFacts
    <2>2. image_memory(i, p, dmabuf) = <<t, c>> /\ MemorySteps(i, p, dmabuf) = {t, c}
      BY <1>2 DEF image_memory, MemorySteps
    <2> HIDE DEF a, t, b, c
    <2>3. Follows(undo, left, t, c)
      BY <2>1 DEF Follows
    <2>4. QED
      BY <2>2, <2>3, StageTwo
  <1>3. QED
    BY <1>1, <1>2

\* Every step for image i makes one of its slots or a descriptor, and only gives away
\* descriptors of its own.
LEMMA ImageFacts ==
  ASSUME NEW i, NEW planes \in Nat, NEW dmabuf \in BOOLEAN
  PROVE  /\ \A s \in ImageSteps(i, planes, dmabuf) :
              /\ s.from = {} \/ (s.does = "get" /\ s.slot \notin s.from)
              /\ Fails(s) => s.label = "free_images"
              /\ Makes(s) => \/ s.slot \in ImageSlots(i, planes)
                             \/ dmabuf /\ \E p \in 1..planes : s.slot = dupFd(i, p)
              /\ \A x \in Gives(s) : \E p \in 1..planes : x = dupFd(i, p)
         /\ \A x \in ImageSlots(i, planes) : \E s \in ImageSteps(i, planes, dmabuf) :
              Writes(s) /\ s.slot = x /\ (x # <<"memoryCount", i>> => Surely(s))
         /\ \A p \in 1..planes : dmabuf =>
              \E s \in ImageSteps(i, planes, dmabuf) : dupFd(i, p) \in Gives(s)
  <1> DEFINE a == Get(<<"image", i>>, "free_images")
             b == Set(<<"memoryCount", i>>)
             M == UNION {MemorySteps(i, p, dmabuf) : p \in 1..planes}
             I == ImageSteps(i, planes, dmabuf)
  <1>1. <<"image", i>> # none /\ <<"image", i>> # <<"memoryCount", i>>
    BY SlotsApart
  <1>2. /\ a.slot = <<"image", i>> /\ a.from = {} /\ Gives(a) = {} /\ a.label = "free_images"
        /\ Surely(a) /\ Writes(a)
        /\ b.slot = <<"memoryCount", i>> /\ b.from = {} /\ Gives(b) = {} /\ Writes(b)
        /\ ~Makes(b) /\ ~Fails(b)
    BY <1>1, GetFacts, SetFacts
  <1>3. I = {a, b} \cup M
    BY DEF ImageSteps
  <1> HIDE DEF a, b, I
  <1>4. \A s \in M : \E p \in 1..planes : s \in MemorySteps(i, p, dmabuf)
    OBVIOUS
  <1>5. \A p \in 1..planes : MemorySteps(i, p, dmabuf) \subseteq M
    OBVIOUS
  <1> HIDE DEF M
  <1>6. \A x \in ImageSlots(i, planes) :
          x = <<"image", i>> \/ x = <<"memoryCount", i>> \/ \E p \in 1..planes : x = memory(i, p)
    BY DEF ImageSlots
  <1>7. <<"image", i>> \in ImageSlots(i, planes) /\ \A p \in 1..planes : memory(i, p) \in ImageSlots(i, planes)
    BY DEF ImageSlots
  <1>8. ASSUME NEW s \in I
        PROVE  /\ s.from = {} \/ (s.does = "get" /\ s.slot \notin s.from)
               /\ Fails(s) => s.label = "free_images"
               /\ Makes(s) => \/ s.slot \in ImageSlots(i, planes)
                              \/ dmabuf /\ \E p \in 1..planes : s.slot = dupFd(i, p)
               /\ \A x \in Gives(s) : \E p \in 1..planes : x = dupFd(i, p)
    <2>1. CASE s \in {a, b}
      BY <1>2, <1>7, <2>1
    <2>2. CASE s \in M
      <3>1. PICK p \in 1..planes : s \in MemorySteps(i, p, dmabuf)
        BY <1>4, <2>2
      <3>2. QED
        BY <1>7, <3>1, MemoryFacts
    <2>3. QED
      BY <1>3, <2>1, <2>2
  <1>9. ASSUME NEW x \in ImageSlots(i, planes)
        PROVE  \E s \in I : Writes(s) /\ s.slot = x /\ (x # <<"memoryCount", i>> => Surely(s))
    <2>1. CASE x = <<"image", i>> \/ x = <<"memoryCount", i>>
      BY <1>2, <1>3, <2>1
    <2>2. CASE \E p \in 1..planes : x = memory(i, p)
      <3>1. PICK p \in 1..planes : x = memory(i, p)
        BY <2>2
      <3>2. PICK s \in MemorySteps(i, p, dmabuf) : Surely(s) /\ Writes(s) /\ s.slot = memory(i, p)
        BY MemoryFacts
      <3>3. QED
        BY <1>3, <1>5, <3>1, <3>2
    <2>3. QED
      BY <1>6, <2>1, <2>2
  <1>10. ASSUME NEW p \in 1..planes, dmabuf PROVE \E s \in I : dupFd(i, p) \in Gives(s)
    BY <1>3, <1>5, <1>10, MemoryFacts
  <1>11. QED
    BY <1>8, <1>9, <1>10 DEF I

LEMMA StageImage ==
  ASSUME NEW undo, NEW left, NEW F, ToSet(Unwind(undo, "free_images")) = F,
         NEW i, NEW planes \in Nat, NEW dmabuf \in BOOLEAN,
         ImageSlots(i, planes) \subseteq F, \A j, p : dupFd(j, p) \notin F,
         dmabuf => \A p \in 1..planes : dupFd(i, p) \in left
  PROVE  Stage(undo, left, own_image(i, planes, dmabuf), ImageSteps(i, planes, dmabuf))
  <1> DEFINE a == Get(<<"image", i>>, "free_images")
             b == Set(<<"memoryCount", i>>)
             M == [p \in 1..planes |-> MemorySteps(i, p, dmabuf)]
             part == [p \in 1..planes |-> image_memory(i, p, dmabuf)]
  <1>1. /\ own_image(i, planes, dmabuf) = <<a, b>> \o Loop(part)
        /\ ImageSteps(i, planes, dmabuf) = {a, b} \cup AllOf(M, planes)
    BY DEF own_image, ImageSteps, AllOf
  <1>2. /\ a.slot = <<"image", i>> /\ Gives(a) = {} /\ Gives(b) = {} /\ ~Makes(b) /\ ~Fails(b)
        /\ <<"image", i>> \in F
    BY GetFacts, SetFacts DEF ImageSlots
  <1>3. \A p \in 1..planes : memory(i, p) \in F
    BY DEF ImageSlots
  <1>4. \A p \in 1..planes : M[p] = MemorySteps(i, p, dmabuf)
    OBVIOUS
  <1>5. \A p \in 1..planes : Stage(undo, left, part[p], M[p])
    BY StageMemory
  <1>6. part = [p \in 1..planes |-> part[p]]
    OBVIOUS
  <1> HIDE DEF a, b, M, part
  <1>7. ASSUME NEW p \in 1..planes, NEW q \in 1..planes, p < q,
               NEW s \in M[p], NEW t \in M[q]
        PROVE  Follows(undo, left, s, t)
    <2>1. /\ Makes(s) => s.slot \in F \cup left
          /\ Gives(s) \subseteq {dupFd(i, p)}
      BY <1>3, <1>4, MemoryFacts
    <2>2. /\ Makes(t) => t.slot = memory(i, q) \/ t.slot = dupFd(i, q)
          /\ t.label = "free_images"
      BY <1>4, MemoryFacts
    <2>3. memory(i, q) # dupFd(i, p) /\ dupFd(i, q) # dupFd(i, p)
      BY <1>7 DEF memory, dupFd
    <2>4. QED
      BY <2>1, <2>2, <2>3 DEF Follows, Undone
  <1>8. Stage(undo, left, Loop(part), AllOf(M, planes))
    <2>1. \A j, k \in 1..planes : j < k => \A x \in M[j], y \in M[k] : Follows(undo, left, x, y)
      BY <1>7
    <2>2. QED
      BY <1>5, <1>6, <2>1, StageLoop DEF Parts
  <1>9. Stage(undo, left, <<a, b>>, {a, b})
    BY <1>2, FollowsAny, StageTwo
  <1>10. ASSUME NEW x \in {a, b}, NEW y \in AllOf(M, planes)
         PROVE  Follows(undo, left, x, y)
    <2>1. PICK p \in 1..planes : y \in M[p]
      BY <1>10 DEF AllOf
    <2>2. y.label = "free_images"
      BY <1>4, <2>1, MemoryFacts
    <2>3. QED
      BY <1>2, <2>2 DEF Follows, Undone
  <1>11. QED
    BY <1>1, <1>8, <1>9, <1>10, StageConcat

\* The steps for all the images.
OwnSteps(n, planes, dmabuf) == UNION {ImageSteps(i, planes, dmabuf) : i \in 1..n}

LEMMA StageOwn ==
  ASSUME NEW undo, NEW left, NEW F, ToSet(Unwind(undo, "free_images")) = F,
         NEW n \in Nat, NEW planes \in Nat, NEW dmabuf \in BOOLEAN,
         \A i \in 1..n : ImageSlots(i, planes) \subseteq F, \A j, p : dupFd(j, p) \notin F,
         dmabuf => \A i \in 1..n, p \in 1..planes : dupFd(i, p) \in left
  PROVE  Stage(undo, left, Loop([i \in 1..n |-> own_image(i, planes, dmabuf)]),
               OwnSteps(n, planes, dmabuf))
  <1> DEFINE M == [i \in 1..n |-> ImageSteps(i, planes, dmabuf)]
             part == [i \in 1..n |-> own_image(i, planes, dmabuf)]
  <1>1. \A i \in 1..n : M[i] = ImageSteps(i, planes, dmabuf)
    OBVIOUS
  <1>2. \A i \in 1..n : part[i] = own_image(i, planes, dmabuf)
    OBVIOUS
  <1>3. part = [i \in 1..n |-> part[i]]
    OBVIOUS
  <1>4. OwnSteps(n, planes, dmabuf) = AllOf(M, n)
    BY DEF OwnSteps, AllOf
  <1> HIDE DEF M, part
  <1>5. ASSUME NEW i \in 1..n PROVE Stage(undo, left, part[i], M[i])
    <2>1. dmabuf => \A p \in 1..planes : dupFd(i, p) \in left
      OBVIOUS
    <2>2. Stage(undo, left, own_image(i, planes, dmabuf), ImageSteps(i, planes, dmabuf))
      BY <2>1, StageImage
    <2>3. QED
      BY <1>1, <1>2, <2>2
  <1>6. ASSUME NEW i \in 1..n, NEW j \in 1..n, i < j, NEW s \in M[i], NEW t \in M[j]
        PROVE  Follows(undo, left, s, t)
    <2>1. /\ Makes(s) => s.slot \in F \cup left
          /\ \A x \in Gives(s) : \E p \in 1..planes : x = dupFd(i, p)
      BY <1>1, ImageFacts
    <2>2. /\ Makes(t) => \/ t.slot \in ImageSlots(j, planes)
                         \/ dmabuf /\ \E p \in 1..planes : t.slot = dupFd(j, p)
          /\ Fails(t) => t.label = "free_images"
      BY <1>1, ImageFacts
    <2>3. Gives(s) \cap F = {}
      BY <2>1
    <2>4. ASSUME Makes(t) PROVE t.slot \notin Gives(s)
      <3>1. \A p, q : dupFd(j, p) # dupFd(i, q)
        BY <1>6 DEF dupFd
      <3>2. QED
        BY <2>1, <2>2, <2>3, <2>4, <3>1
    <2>5. QED
      BY <2>1, <2>2, <2>3, <2>4 DEF Follows, Undone
  <1>7. Stage(undo, left, Loop(part), AllOf(M, n))
    <2>1. \A j, k \in 1..n : j < k => \A x \in M[j], y \in M[k] : Follows(undo, left, x, y)
      BY <1>6
    <2>2. QED
      BY <1>3, <1>5, <2>1, StageLoop DEF Parts
  <1>8. QED
    BY <1>4, <1>7 DEF part

LEMMA ListsAppend ==
  ASSUME NEW s, NEW S, Lists(s, S), NEW x, x \notin S
  PROVE  Lists(Append(s, x), S \cup {x})
  <1> DEFINE u == Append(s, x)
             n == Len(s)
  <1>1. n \in Nat /\ DOMAIN s = 1..n /\ s \in Seq(S) /\ \A k \in 1..n : s[k] \in S
    BY SeqFacts DEF Lists, IsSeq
  <1>2. /\ u \in Seq(S \cup {x}) /\ Len(u) = n + 1 /\ DOMAIN u = 1 .. n + 1
        /\ \A k \in 1..n : u[k] = s[k]
        /\ u[n + 1] = x
    <2>1. s \in Seq(S \cup {x})
      BY <1>1
    <2>2. QED
      BY <2>1
  <1>3. \A y \in S : \E k \in 1..n : s[k] = y
    BY SeqFacts DEF Lists
  <1> HIDE DEF u, n
  <1>4. 1 .. n + 1 = 1..n \cup {n + 1}
    BY <1>1
  <1>5. ToSet(u) = S \cup {x}
    <2>1. ToSet(u) \subseteq S \cup {x}
      BY <1>1, <1>2, <1>4 DEF ToSet
    <2>2. ASSUME NEW y \in S PROVE y \in ToSet(u)
      BY <1>2, <1>3, <1>4 DEF ToSet
    <2>3. x \in ToSet(u)
      BY <1>2, <1>4 DEF ToSet
    <2>4. QED
      BY <2>1, <2>2, <2>3
  <1>6. \A j, k \in 1..n : s[j] = s[k] => j = k
    BY <1>1 DEF Lists, IsInjective
  <1>7. IsInjective(u)
    BY <1>1, <1>2, <1>4, <1>6 DEF IsInjective
  <1>8. QED
    BY <1>2, <1>5, <1>7 DEF Lists, IsSeq, u

LEMMA ListsImage ==
  ASSUME NEW i, NEW planes \in Nat
  PROVE  Lists(image_slots(i, planes), ImageSlots(i, planes))
  <1> DEFINE s == [p \in 1..planes |-> memory(i, p)]
             two == <<<<"image", i>>, <<"memoryCount", i>>>>
             T == {<<"image", i>>, <<"memoryCount", i>>}
             M == {memory(i, p) : p \in 1..planes}
  <1>1. s = [p \in 1..planes |-> s[p]] /\ \A p \in 1..planes : s[p] = memory(i, p)
    OBVIOUS
  <1>2. \A p, q : memory(i, p) = memory(i, q) => p = q
    BY DEF memory
  <1>3. Lists(two, T)
    <2>1. <<"image", i>> # <<"memoryCount", i>>
      OBVIOUS
    <2>2. QED
      BY <2>1, ListsWritten
  <1>4. T \cap M = {}
    BY DEF memory
  <1>5. image_slots(i, planes) = two \o s /\ ImageSlots(i, planes) = T \cup M
    BY DEF image_slots, ImageSlots
  <1> HIDE DEF s, two, T
  <1>6. Lists(s, M)
    <2>1. IsSeq(s) /\ DOMAIN s = 1..planes
      BY <1>1, Tabulated
    <2>2. ToSet(s) = M
      BY <1>1, <2>1 DEF ToSet
    <2>3. IsInjective(s)
      BY <1>1, <1>2, <2>1 DEF IsInjective
    <2>4. QED
      BY <2>1, <2>2, <2>3 DEF Lists
  <1>7. QED
    BY <1>3, <1>4, <1>5, <1>6, ListsConcat

\* Different images have different slots, none of them a view, an array or a descriptor.
LEMMA ImageSlotsApart ==
  ASSUME NEW planes
  PROVE  /\ \A i, j : i # j => ImageSlots(i, planes) \cap ImageSlots(j, planes) = {}
         /\ \A i, n : ImageSlots(i, planes) \cap Slots("view", n) = {}
         /\ \A i : imageHandles \notin ImageSlots(i, planes) /\ viewHandles \notin ImageSlots(i, planes)
         /\ \A i, j, p : dupFd(j, p) \notin ImageSlots(i, planes)
         /\ \A i, j : <<"view", j>> \notin ImageSlots(i, planes)
         /\ \A i : ImageSlots(i, planes) \cap Passing = {}
  BY DEF ImageSlots, Slots, memory, dupFd, imageHandles, viewHandles, Passing

\* What the labels release: the images with their memory, and their views.
LEMMA ImageLists ==
  ASSUME NEW n \in Nat, NEW planes \in Nat
  PROVE  LET I == [i \in 1..n |-> ImageSlots(i, planes)]
             c(dmabuf) == own_image_create(n, planes, dmabuf)
         IN  \A dmabuf \in BOOLEAN :
               /\ Lists(Unwind(c(dmabuf).undo, "free_images"), AllOf(I, n) \cup {imageHandles})
               /\ Lists(Unwind(c(dmabuf).undo, "free_image_views"),
                        (Slots("view", n) \cup {viewHandles}) \cup (AllOf(I, n) \cup {imageHandles}))
               /\ Lists(c(dmabuf).destroy,
                        (AllOf(I, n) \cup Slots("view", n)) \cup {imageHandles, viewHandles})
  <1> DEFINE V == Slots("view", n)
             I == [i \in 1..n |-> ImageSlots(i, planes)]
             IV == [i \in 1..n |-> ImageSlots(i, planes) \cup {<<"view", i>>}]
             s == [i \in 1..n |-> image_slots(i, planes)]
             t == [i \in 1..n |-> Append(image_slots(i, planes), <<"view", i>>)]
             F == AllOf(I, n)
             undo == <<At("free_image_views", Each("view", n) \o <<viewHandles>>),
                       At("free_images", Loop(s) \o <<imageHandles>>)>>
             destroy == Loop(t) \o <<imageHandles, viewHandles>>
  <1>1. SUFFICES ASSUME NEW dmabuf \in BOOLEAN
                 PROVE  LET c == own_image_create(n, planes, dmabuf)
                        IN  /\ Lists(Unwind(c.undo, "free_images"), F \cup {imageHandles})
                            /\ Lists(Unwind(c.undo, "free_image_views"),
                                     (V \cup {viewHandles}) \cup (F \cup {imageHandles}))
                            /\ Lists(c.destroy, (F \cup V) \cup {imageHandles, viewHandles})
    OBVIOUS
  <1> DEFINE c == own_image_create(n, planes, dmabuf)
  <1>2. c.undo = undo /\ c.destroy = destroy
    <2> DEFINE steps == Loop([i \in 1..n |-> own_image(i, planes, dmabuf)]) \o views(n)
               junks == {<<"memoryCount", i>> : i \in 1..n}
                          \cup ({memory(i, p) : i \in 1..n, p \in 1..planes} \ {memory(1, p) : p \in 1..n})
    <2>1. c = [Function(steps, undo, destroy) EXCEPT !.junk = junks]
      BY DEF own_image_create, free_image_views, imageHandles, viewHandles
    <2> HIDE DEF c, steps, undo, destroy, junks
    <2>2. QED
      BY <2>1 DEF Function
  <1>3. /\ s = [i \in 1..n |-> s[i]] /\ t = [i \in 1..n |-> t[i]]
        /\ \A i \in 1..n : /\ s[i] = image_slots(i, planes) /\ I[i] = ImageSlots(i, planes)
                           /\ t[i] = Append(image_slots(i, planes), <<"view", i>>)
                           /\ IV[i] = ImageSlots(i, planes) \cup {<<"view", i>>}
    OBVIOUS
  <1>4. \A x : x \in AllOf(IV, n) <=> x \in F \cup V
    <2>1. \A x : x \in V <=> \E i \in 1..n : x = <<"view", i>>
      BY DEF Slots
    <2>2. \A i \in 1..n : I[i] = ImageSlots(i, planes) /\ IV[i] = ImageSlots(i, planes) \cup {<<"view", i>>}
      BY <1>3
    <2> HIDE DEF I, IV, V, s, t, c
    <2>3. \A x : /\ x \in AllOf(I, n) <=> \E i \in 1..n : x \in I[i]
                 /\ x \in AllOf(IV, n) <=> \E i \in 1..n : x \in IV[i]
      BY AllOfHolds
    <2>4. QED
      BY <2>1, <2>2, <2>3
  <1>5. /\ F \cap V = {} /\ imageHandles \notin F \cup V /\ viewHandles \notin F \cup V
        /\ imageHandles # viewHandles
    <2>1. imageHandles # viewHandles /\ imageHandles \notin V /\ viewHandles \notin V
      BY SlotsApart DEF imageHandles, viewHandles
    <2>2. /\ \A i \in 1..n : ImageSlots(i, planes) \cap V = {}
          /\ \A i \in 1..n : imageHandles \notin ImageSlots(i, planes) /\ viewHandles \notin ImageSlots(i, planes)
      BY ImageSlotsApart
    <2>3. \A i \in 1..n : I[i] = ImageSlots(i, planes)
      BY <1>3
    <2> HIDE DEF I, V, s, t, c, IV
    <2>4. \A x : x \in AllOf(I, n) <=> \E i \in 1..n : x \in I[i]
      BY AllOfHolds
    <2>5. QED
      BY <2>1, <2>2, <2>3, <2>4
  <1> HIDE DEF I, IV, s, t, c, F, V
  <1>6. \A i \in 1..n : Lists(s[i], I[i]) /\ Lists(t[i], IV[i])
    <2>1. ASSUME NEW i \in 1..n PROVE Lists(s[i], I[i]) /\ Lists(t[i], IV[i])
      <3>1. Lists(image_slots(i, planes), ImageSlots(i, planes))
        BY ListsImage
      <3>2. <<"view", i>> \notin ImageSlots(i, planes)
        BY ImageSlotsApart
      <3>3. Lists(Append(image_slots(i, planes), <<"view", i>>), ImageSlots(i, planes) \cup {<<"view", i>>})
        BY <3>1, <3>2, ListsAppend
      <3>4. QED
        BY <1>3, <3>1, <3>3
    <2>2. QED
      BY <2>1
  <1>7. Lists(Loop(s), F)
    <2>1. \A j, k \in 1..n : j # k => I[j] \cap I[k] = {}
      BY <1>3, ImageSlotsApart
    <2>2. QED
      BY <1>3, <1>6, <2>1, ListsLoop DEF F
  <1>8. Lists(Loop(t), AllOf(IV, n))
    <2>1. ASSUME NEW j \in 1..n, NEW k \in 1..n, j # k PROVE IV[j] \cap IV[k] = {}
      <3>1. <<"view", j>> # <<"view", k>>
        BY <2>1
      <3>2. /\ ImageSlots(j, planes) \cap ImageSlots(k, planes) = {}
            /\ <<"view", j>> \notin ImageSlots(k, planes) /\ <<"view", k>> \notin ImageSlots(j, planes)
        BY <2>1, ImageSlotsApart
      <3>3. QED
        BY <1>3, <3>1, <3>2
    <2>2. QED
      BY <1>3, <1>6, <2>1, ListsLoop
  <1>9. Lists(Loop(s) \o <<imageHandles>>, F \cup {imageHandles})
    <2>1. Lists(<<imageHandles>>, {imageHandles}) /\ F \cap {imageHandles} = {}
      BY <1>5, ListsWritten
    <2>2. QED
      BY <1>7, <2>1, ListsConcat
  <1>10. Lists(Each("view", n) \o <<viewHandles>>, V \cup {viewHandles})
    <2>1. /\ Lists(<<viewHandles>>, {viewHandles}) /\ V \cap {viewHandles} = {}
          /\ Lists(Each("view", n), V)
      BY <1>5, ListsWritten, ListsEach DEF V
    <2>2. QED
      BY <2>1, ListsConcat
  <1>11. Lists(destroy, (F \cup V) \cup {imageHandles, viewHandles})
    <2>1. /\ Lists(<<imageHandles, viewHandles>>, {imageHandles, viewHandles})
          /\ AllOf(IV, n) \cap {imageHandles, viewHandles} = {}
      BY <1>4, <1>5, ListsWritten
    <2>2. Lists(destroy, AllOf(IV, n) \cup {imageHandles, viewHandles})
      BY <1>8, <2>1, ListsConcat
    <2>3. AllOf(IV, n) = F \cup V
      BY <1>4
    <2>4. QED
      BY <2>2, <2>3
  <1>12. /\ Lists(Unwind(undo, "free_images"), F \cup {imageHandles})
         /\ Lists(Unwind(undo, "free_image_views"),
                  (V \cup {viewHandles}) \cup (F \cup {imageHandles}))
    <2>1. (V \cup {viewHandles}) \cap (F \cup {imageHandles}) = {}
      BY <1>5
    <2>2. "free_image_views" # "free_images"
      OBVIOUS
    <2>3. QED
      BY <1>9, <1>10, <2>1, <2>2, UnwindsTwo
  <1>13. QED
    BY <1>2, <1>11, <1>12 DEF c

\* Images, in memory of their own or imported: what is left when the function fails are the
\* copies of descriptors, and their memory is junk until it is allocated.
LEMMA OwnImageTidy ==
  ASSUME NEW left, NEW optional, NEW n \in Nat, NEW planes \in Nat, NEW dmabuf \in BOOLEAN,
         \A i \in 1..n : <<"memoryCount", i>> \in optional,
         dmabuf => \A i \in 1..n, p \in 1..planes : dupFd(i, p) \in left
  PROVE  Tidy(own_image_create(n, planes, dmabuf), left, optional, TRUE)
  <1> DEFINE c == own_image_create(n, planes, dmabuf)
             V == Slots("view", n)
             I == [i \in 1..n |-> ImageSlots(i, planes)]
             F == AllOf(I, n) \cup {imageHandles}
             D == (AllOf(I, n) \cup V) \cup {imageHandles, viewHandles}
             T == OwnSteps(n, planes, dmabuf)
             S == T \cup ViewSteps(n)
             own == Loop([i \in 1..n |-> own_image(i, planes, dmabuf)])
             junks == {<<"memoryCount", i>> : i \in 1..n}
                        \cup ({memory(i, p) : i \in 1..n, p \in 1..planes} \ {memory(1, p) : p \in 1..n})
  <1>1. c.steps = own \o views(n) /\ c.given = {} /\ c.junk = junks
    <2> DEFINE undo == <<free_image_views(n),
                         At("free_images", Loop([i \in 1..n |-> image_slots(i, planes)])
                                             \o <<<<"imageHandles">>>>)>>
               destroy == Loop([i \in 1..n |-> Append(image_slots(i, planes), <<"view", i>>)])
                            \o <<<<"imageHandles">>, <<"imageViewHandles">>>>
               steps == own \o views(n)
    <2>1. c = [Function(steps, undo, destroy) EXCEPT !.junk = junks]
      BY DEF own_image_create
    <2> HIDE DEF c, steps, junks, undo, destroy
    <2>2. QED
      BY <2>1 DEF Function, steps
  <1>2. /\ Lists(Unwind(c.undo, "free_images"), F)
        /\ Lists(Unwind(c.undo, "free_image_views"), (V \cup {viewHandles}) \cup F)
        /\ Lists(c.destroy, D)
    BY ImageLists
  <1>3. \A x : x \in AllOf(I, n) <=> \E i \in 1..n : x \in ImageSlots(i, planes)
    <2>1. \A i \in 1..n : I[i] = ImageSlots(i, planes)
      OBVIOUS
    <2> HIDE DEF I
    <2>2. \A x : x \in AllOf(I, n) <=> \E i \in 1..n : x \in I[i]
      BY AllOfHolds
    <2>3. QED
      BY <2>1, <2>2
  <1>4. /\ imageHandles # none /\ viewHandles # none
        /\ \A i, p : dupFd(i, p) \notin Passing /\ dupFd(i, p) # imageHandles /\ dupFd(i, p) # viewHandles
        /\ \A i, p : dupFd(i, p) \notin V
    BY SlotsApart DEF imageHandles, viewHandles, dupFd
  <1>5. \A x \in junks : \E i \in 1..n : x \in ImageSlots(i, planes)
    BY DEF ImageSlots
  <1>6. \A i \in 1..n : <<"memoryCount", i>> \in ImageSlots(i, planes)
    BY DEF ImageSlots
  <1> HIDE DEF c, V, I, own, junks
  <1>7. \A s \in T : \E i \in 1..n : s \in ImageSteps(i, planes, dmabuf)
    BY DEF OwnSteps
  <1>8. \A i \in 1..n : ImageSteps(i, planes, dmabuf) \subseteq T
    BY DEF OwnSteps
  <1> HIDE DEF T
  <1>9. \A i, p : dupFd(i, p) \notin F /\ dupFd(i, p) \notin D
    BY <1>3, <1>4, ImageSlotsApart
  <1>10. ASSUME NEW s \in T
         PROVE  /\ s.from = {} \/ (s.does = "get" /\ s.slot \notin s.from)
                /\ Fails(s) => s.label = "free_images"
                /\ Makes(s) => \/ s.slot \in AllOf(I, n)
                               \/ dmabuf /\ \E i \in 1..n, p \in 1..planes : s.slot = dupFd(i, p)
                /\ \A x \in Gives(s) : \E i \in 1..n, p \in 1..planes : x = dupFd(i, p)
    <2>1. PICK i \in 1..n : s \in ImageSteps(i, planes, dmabuf)
      BY <1>7
    <2>2. QED
      BY <1>3, <2>1, ImageFacts
  <1>11. /\ \A x \in AllOf(I, n) : \E s \in T :
              Writes(s) /\ s.slot = x /\ (x \notin optional => Surely(s))
         /\ \A i \in 1..n, p \in 1..planes : dmabuf => \E s \in T : dupFd(i, p) \in Gives(s)
    <2>1. ASSUME NEW x \in AllOf(I, n)
          PROVE  \E s \in T : Writes(s) /\ s.slot = x /\ (x \notin optional => Surely(s))
      <3>1. PICK i \in 1..n : x \in ImageSlots(i, planes)
        BY <1>3
      <3>2. PICK s \in ImageSteps(i, planes, dmabuf) :
              Writes(s) /\ s.slot = x /\ (x # <<"memoryCount", i>> => Surely(s))
        BY <3>1, ImageFacts
      <3>3. QED
        BY <1>8, <3>2
    <2>2. ASSUME NEW i \in 1..n, NEW p \in 1..planes, dmabuf
          PROVE  \E s \in T : dupFd(i, p) \in Gives(s)
      BY <1>8, <2>2, ImageFacts
    <2>3. QED
      BY <2>1, <2>2
  <1>12. /\ \A s \in ViewSteps(n) :
              /\ s.slot \in D /\ s.from = {} /\ Makes(s) /\ Surely(s) /\ Gives(s) = {}
              /\ s.slot \notin Passing
              /\ s.label \in {"free_images", "free_image_views"}
         /\ \A x \in V \cup {imageHandles, viewHandles} :
              \E s \in ViewSteps(n) : Surely(s) /\ s.slot = x
    BY ViewFacts DEF ViewSlots, V
  <1>13. Stage(c.undo, left, c.steps, S)
    <2>1. Stage(c.undo, left, own, T)
      <3>1. ToSet(Unwind(c.undo, "free_images")) = F
        BY <1>2 DEF Lists
      <3>2. \A i \in 1..n : ImageSlots(i, planes) \subseteq F
        BY <1>3
      <3>3. \A j, p : dupFd(j, p) \notin F
        BY <1>9
      <3> HIDE DEF F
      <3>4. QED
        BY <3>1, <3>2, <3>3, StageOwn DEF own, T
    <2>2. Stage(c.undo, left, views(n), ViewSteps(n))
      BY <1>2, StageViews DEF Lists, ViewSlots, V
    <2>3. ASSUME NEW s \in T, NEW t \in ViewSteps(n) PROVE Follows(c.undo, left, s, t)
      <3>1. F \subseteq Undone(c.undo, t)
        BY <1>2, <1>12 DEF Undone, Lists
      <3>2. Undone(c.undo, t) \subseteq D
        BY <1>2, <1>12 DEF Undone, Lists
      <3>3. Gives(s) \cap D = {}
        BY <1>9, <1>10
      <3>4. Makes(s) => s.slot \in F \cup left
        BY <1>10
      <3>5. t.slot \in D
        BY <1>12
      <3> HIDE DEF F, D
      <3>6. QED
        BY <3>1, <3>2, <3>3, <3>4, <3>5 DEF Follows
    <2>4. QED
      BY <1>1, <2>1, <2>2, <2>3, StageConcat
  <1>14. Plain(c.undo, S, D, optional)
    <2>1. \A s \in S : Fails(s) => \E U : Lists(Unwind(c.undo, s.label), U)
      BY <1>2, <1>10, <1>12
    <2>2. \A s \in S : Gives(s) \cap D = {}
      BY <1>9, <1>10, <1>12
    <2>3. \A s \in S : Makes(s) => s.slot \in D \/ \E t \in S : s.slot \in Gives(t)
      BY <1>10, <1>11, <1>12
    <2>4. \A x \in D : x \in optional \/ \E s \in S : Surely(s) /\ s.slot = x
      BY <1>11, <1>12
    <2>5. \A s \in S : s.from = {} \/ (s.does = "get" /\ s.slot \notin s.from)
      BY <1>10, <1>12
    <2> HIDE DEF S, D
    <2>6. QED
      BY <2>1, <2>2, <2>3, <2>4, <2>5 DEF Plain
  <1>15. \A s \in S : Makes(s) => s.slot \notin Passing
    <2>1. AllOf(I, n) \cap Passing = {}
      BY <1>3, ImageSlotsApart
    <2>2. QED
      BY <1>4, <1>10, <1>12, <2>1
  <1>16. Passes(c.steps)
    BY <1>13, <1>15, NonePass DEF Stage
  <1>17. \A x \in c.junk : \E s \in S : Writes(s) /\ s.slot = x
    BY <1>1, <1>3, <1>5, <1>11
  <1> HIDE DEF S, D
  <1>18. Tidy(c, left, optional, TRUE)
    BY <1>1, <1>2, <1>13, <1>14, <1>16, <1>17, TidyWhen
  <1>19. QED
    BY <1>18 DEF c

-----------------------------------------------------------------------------
(* Functions of the loaders, of the input and of the session.              *)

LEMMA ImageBufferTidy ==
  ASSUME NEW left, NEW optional, NEW exempt
  PROVE  Tidy(kmr_utils_image_buffer_create, left, optional, exempt)
  <1> DEFINE file == <<"imageFile">>
             bytes == <<"bytes">>
             pixels == <<"pixels">>
             undo == <<At("free_bytes", <<bytes>>), At("free_imageFile", <<file>>)>>
             a == Get(file, "image_buffer")
             b == Get(bytes, "free_imageFile")
             c == Get(pixels, "free_bytes")
             d == Free(file)
             e == Free(bytes)
             steps == <<a, b, c, d, e>>
             S == {a, b, c, d, e}
             D == {pixels}
  <1>1. kmr_utils_image_buffer_create = Function(steps, undo, <<pixels>>)
    BY DEF kmr_utils_image_buffer_create
  <1>2. /\ file # none /\ file \notin Passing
        /\ bytes # none /\ bytes \notin Passing
        /\ pixels # none /\ pixels \notin Passing
        /\ file # bytes /\ file # pixels /\ bytes # pixels
    BY SlotsApart
  <1>3. /\ a.slot = file /\ a.from = {} /\ Makes(a) /\ Surely(a) /\ Gives(a) = {}
        /\ a.label = "image_buffer"
        /\ b.slot = bytes /\ b.from = {} /\ Makes(b) /\ Surely(b) /\ Gives(b) = {}
        /\ b.label = "free_imageFile"
        /\ c.slot = pixels /\ c.from = {} /\ Makes(c) /\ Surely(c) /\ Gives(c) = {}
        /\ c.label = "free_bytes"
        /\ d.from = {} /\ ~Makes(d) /\ ~Fails(d) /\ Gives(d) = {file}
        /\ e.from = {} /\ ~Makes(e) /\ ~Fails(e) /\ Gives(e) = {bytes}
    BY <1>2, FreeFacts, GetFacts
  <1> HIDE DEF file, bytes, pixels, a, b, c, d, e
  <1>4. /\ Lists(<<pixels>>, {pixels})
        /\ Lists(<<bytes>>, {bytes})
        /\ Lists(<<file>>, {file})
    BY <1>2, ListsWritten
  <1>5. /\ Lists(Unwind(undo, "free_bytes"), {bytes} \cup {file})
        /\ Lists(Unwind(undo, "free_imageFile"), {file})
        /\ Lists(Unwind(undo, "image_buffer"), {})
    <2>1. {bytes} \cap {file} = {}
      BY <1>2
    <2>2. "free_bytes" # "free_imageFile" /\ "image_buffer" \notin {"free_bytes", "free_imageFile"}
      OBVIOUS
    <2>3. QED
      BY <1>4, <2>1, <2>2, UnwindsTwo
  <1> HIDE DEF undo
  <1>6. Stage(undo, left, steps, S)
    <2>1. /\ Follows(undo, left, a, b)
          /\ \A x \in {a, b} : Follows(undo, left, x, c)
          /\ \A x \in {a, b, c} : Follows(undo, left, x, d)
          /\ \A x \in {a, b, c, d} : Follows(undo, left, x, e)
      BY <1>3, <1>5 DEF Follows, Undone, Lists
    <2>2. QED
      BY <2>1, StageFive
  <1>7. Plain(undo, S, D, optional) /\ \A s \in S : Makes(s) => s.slot \notin Passing
    BY <1>2, <1>3, <1>5 DEF Plain
  <1>8. QED
    BY <1>1, <1>4, <1>6, <1>7, TidyPlain

LEMMA FileLoadTidy ==
  ASSUME NEW left, NEW optional, NEW exempt
  PROVE  Tidy(kmr_utils_file_load, left, optional, exempt)
  <1> DEFINE stream == <<"stream">>
             bytes == <<"bytes">>
             undo == <<At("free_bytes", <<bytes>>), At("fclose", <<stream>>)>>
             a == Get(stream, "file_load")
             b == Try("fclose")
             c == Try("fclose")
             d == Get(bytes, "fclose")
             e == Try("free_bytes")
             f == Free(stream)
             steps == <<a, b, c, d, e, f>>
             S == {a, b, c, d, e, f}
             D == {bytes}
  <1>1. kmr_utils_file_load = Function(steps, undo, <<bytes>>)
    BY DEF kmr_utils_file_load
  <1>2. /\ stream # none /\ stream \notin Passing
        /\ bytes # none /\ bytes \notin Passing
        /\ stream # bytes
    BY SlotsApart
  <1>3. /\ a.slot = stream /\ a.from = {} /\ Makes(a) /\ Surely(a) /\ Gives(a) = {}
        /\ a.label = "file_load"
        /\ b.from = {} /\ ~Makes(b) /\ Gives(b) = {} /\ b.label = "fclose"
        /\ c.from = {} /\ ~Makes(c) /\ Gives(c) = {} /\ c.label = "fclose"
        /\ d.slot = bytes /\ d.from = {} /\ Makes(d) /\ Surely(d) /\ Gives(d) = {}
        /\ d.label = "fclose"
        /\ e.from = {} /\ ~Makes(e) /\ Gives(e) = {} /\ e.label = "free_bytes"
        /\ f.from = {} /\ ~Makes(f) /\ ~Fails(f) /\ Gives(f) = {stream}
    BY <1>2, FreeFacts, GetFacts, TryFacts
  <1> HIDE DEF stream, bytes, a, b, c, d, e, f
  <1>4. /\ Lists(<<bytes>>, {bytes})
        /\ Lists(<<stream>>, {stream})
    BY <1>2, ListsWritten
  <1>5. /\ Lists(Unwind(undo, "free_bytes"), {bytes} \cup {stream})
        /\ Lists(Unwind(undo, "fclose"), {stream})
        /\ Lists(Unwind(undo, "file_load"), {})
    <2>1. {bytes} \cap {stream} = {}
      BY <1>2
    <2>2. "free_bytes" # "fclose" /\ "file_load" \notin {"free_bytes", "fclose"}
      OBVIOUS
    <2>3. QED
      BY <1>4, <2>1, <2>2, UnwindsTwo
  <1> HIDE DEF undo
  <1>6. Stage(undo, left, steps, S)
    <2>1. /\ Follows(undo, left, a, b)
          /\ \A x \in {a, b} : Follows(undo, left, x, c)
          /\ \A x \in {a, b, c} : Follows(undo, left, x, d)
          /\ \A x \in {a, b, c, d} : Follows(undo, left, x, e)
          /\ \A x \in {a, b, c, d, e} : Follows(undo, left, x, f)
      BY <1>3, <1>5 DEF Follows, Undone, Lists
    <2>2. QED
      BY <2>1, StageSix
  <1>7. Plain(undo, S, D, optional) /\ \A s \in S : Makes(s) => s.slot \notin Passing
    BY <1>2, <1>3, <1>5 DEF Plain
  <1>8. QED
    BY <1>1, <1>4, <1>6, <1>7, TidyPlain

LEMMA ConcatFileTidy ==
  ASSUME NEW left, NEW optional, NEW exempt
  PROVE  Tidy(kmr_utils_concat_file_to_dir, left, optional, exempt)
  <1> DEFINE path == <<"filepath">>
             str == <<"str">>
             undo == <<At("stat", <<path>>)>>
             a == Get(path, "return")
             b == Try("stat")
             c == GetOrSkip(str)
             d == Free(str)
             steps == <<a, b, c, d>>
             S == {a, b, c, d}
             D == {path}
  <1>1. kmr_utils_concat_file_to_dir = Function(steps, undo, <<path>>)
    BY DEF kmr_utils_concat_file_to_dir
  <1>2. /\ path # none /\ path \notin Passing
        /\ str # none /\ str \notin Passing
        /\ path # str
    BY SlotsApart
  <1>3. /\ a.slot = path /\ a.from = {} /\ Makes(a) /\ Surely(a) /\ Gives(a) = {}
        /\ a.label = "return"
        /\ b.from = {} /\ ~Makes(b) /\ Gives(b) = {} /\ b.label = "stat"
        /\ c.slot = str /\ c.from = {} /\ Makes(c) /\ ~Fails(c) /\ Gives(c) = {}
        /\ d.from = {} /\ ~Makes(d) /\ ~Fails(d) /\ Gives(d) = {str}
    BY <1>2, FreeFacts, GetFacts, OrSkipFacts, TryFacts
  <1> HIDE DEF path, str, a, b, c, d
  <1>4. /\ Lists(<<path>>, {path})
    BY <1>2, ListsWritten
  <1>5. /\ Lists(Unwind(undo, "stat"), {path})
        /\ Lists(Unwind(undo, "return"), {})
    BY <1>4, UnwindsOne
  <1> HIDE DEF undo
  <1>6. Stage(undo, left, steps, S)
    <2>1. /\ Follows(undo, left, a, b)
          /\ \A x \in {a, b} : Follows(undo, left, x, c)
          /\ \A x \in {a, b, c} : Follows(undo, left, x, d)
      BY <1>3, <1>5 DEF Follows, Undone, Lists
    <2>2. QED
      BY <2>1, StageFour
  <1>7. Plain(undo, S, D, optional) /\ \A s \in S : Makes(s) => s.slot \notin Passing
    BY <1>2, <1>3, <1>5 DEF Plain
  <1>8. QED
    BY <1>1, <1>4, <1>6, <1>7, TidyPlain

LEMMA ShmFileTidy ==
  ASSUME NEW left, NEW optional, NEW exempt
  PROVE  Tidy(allocate_shm_file, left, optional, exempt)
  <1> DEFINE fd == <<"fd">>
             undo == <<At("close", <<fd>>)>>
             a == Get(fd, "return")
             b == Try("close")
             steps == <<a, b>>
             S == {a, b}
             D == {fd}
  <1>1. allocate_shm_file = Function(steps, undo, <<fd>>)
    BY DEF allocate_shm_file
  <1>2. /\ fd # none /\ fd \notin Passing
    BY SlotsApart
  <1>3. /\ a.slot = fd /\ a.from = {} /\ Makes(a) /\ Surely(a) /\ Gives(a) = {}
        /\ a.label = "return"
        /\ b.from = {} /\ ~Makes(b) /\ Gives(b) = {} /\ b.label = "close"
    BY <1>2, GetFacts, TryFacts
  <1> HIDE DEF fd, a, b
  <1>4. /\ Lists(<<fd>>, {fd})
    BY <1>2, ListsWritten
  <1>5. /\ Lists(Unwind(undo, "close"), {fd})
        /\ Lists(Unwind(undo, "return"), {})
    BY <1>4, UnwindsOne
  <1> HIDE DEF undo
  <1>6. Stage(undo, left, steps, S)
    <2>1. Follows(undo, left, a, b)
      BY <1>3, <1>5 DEF Follows, Undone, Lists
    <2>2. QED
      BY <2>1, StageTwo
  <1>7. Plain(undo, S, D, optional) /\ \A s \in S : Makes(s) => s.slot \notin Passing
    BY <1>2, <1>3, <1>5 DEF Plain
  <1>8. QED
    BY <1>1, <1>4, <1>6, <1>7, TidyPlain

LEMMA SpirvTidy ==
  ASSUME NEW left, NEW optional, NEW exempt
  PROVE  Tidy(kmr_shader_spirv_create, left, optional, exempt)
  <1> DEFINE spirv == <<"spirv">>
             compiler == <<"compiler">>
             options == <<"options">>
             result == <<"result">>
             undo == <<At("spirv_create", <<options, compiler>> \o <<result, spirv>>)>>
             a == Get(spirv, "spirv_create")
             b == Get(compiler, "spirv_create")
             c == Get(options, "spirv_create")
             d == GetOrCrash(result)
             e == Try("spirv_create")
             f == Free(options)
             g == Free(compiler)
             steps == <<a, b, c, d, e, f, g>>
             S == {a, b, c, d, e, f, g}
             D == {result, spirv}
  <1>1. kmr_shader_spirv_create = Function(steps, undo, <<result, spirv>>)
    BY DEF kmr_shader_spirv_create
  <1>2. /\ spirv # none /\ spirv \notin Passing
        /\ compiler # none /\ compiler \notin Passing
        /\ options # none /\ options \notin Passing
        /\ result # none /\ result \notin Passing
        /\ spirv # compiler /\ spirv # options /\ spirv # result /\ compiler # options
        /\ compiler # result /\ options # result
    BY SlotsApart
  <1>3. /\ a.slot = spirv /\ a.from = {} /\ Makes(a) /\ Surely(a) /\ Gives(a) = {}
        /\ a.label = "spirv_create"
        /\ b.slot = compiler /\ b.from = {} /\ Makes(b) /\ Surely(b) /\ Gives(b) = {}
        /\ b.label = "spirv_create"
        /\ c.slot = options /\ c.from = {} /\ Makes(c) /\ Surely(c) /\ Gives(c) = {}
        /\ c.label = "spirv_create"
        /\ d.slot = result /\ d.from = {} /\ Surely(d) /\ ~Fails(d) /\ Gives(d) = {}
        /\ e.from = {} /\ ~Makes(e) /\ Gives(e) = {} /\ e.label = "spirv_create"
        /\ f.from = {} /\ ~Makes(f) /\ ~Fails(f) /\ Gives(f) = {options}
        /\ g.from = {} /\ ~Makes(g) /\ ~Fails(g) /\ Gives(g) = {compiler}
    BY <1>2, FreeFacts, GetFacts, OrCrashFacts, TryFacts
  <1> HIDE DEF spirv, compiler, options, result, a, b, c, d, e, f, g
  <1>4. /\ Lists(<<result, spirv>>, {result, spirv})
        /\ Lists(<<options, compiler>>, {options, compiler})
    BY <1>2, ListsWritten
  <1>5. Lists(<<options, compiler>> \o <<result, spirv>>, {options, compiler} \cup {result, spirv})
    <2>1. {options, compiler} \cap {result, spirv} = {}
      BY <1>2
    <2>2. QED
      BY <1>4, <2>1, ListsConcat
  <1>6. /\ Lists(Unwind(undo, "spirv_create"), {options, compiler} \cup {result, spirv})
    BY <1>4, <1>5, UnwindsOne
  <1> HIDE DEF undo
  <1>7. Stage(undo, left, steps, S)
    <2>1. /\ Follows(undo, left, a, b)
          /\ \A x \in {a, b} : Follows(undo, left, x, c)
          /\ \A x \in {a, b, c} : Follows(undo, left, x, d)
          /\ \A x \in {a, b, c, d} : Follows(undo, left, x, e)
          /\ \A x \in {a, b, c, d, e} : Follows(undo, left, x, f)
          /\ \A x \in {a, b, c, d, e, f} : Follows(undo, left, x, g)
      BY <1>3, <1>6 DEF Follows, Undone, Lists
    <2>2. QED
      BY <2>1, StageSeven
  <1>8. Plain(undo, S, D, optional) /\ \A s \in S : Makes(s) => s.slot \notin Passing
    BY <1>2, <1>3, <1>6 DEF Plain
  <1>9. QED
    BY <1>1, <1>4, <1>7, <1>8, TidyPlain

LEMMA GltfFileTidy ==
  ASSUME NEW left, NEW optional, NEW exempt
  PROVE  Tidy(kmr_gltf_loader_file_create, left, optional, exempt)
  <1> DEFINE file == <<"gltfFile">>
             data == <<"gltfData">>
             undo == <<At("destroy", <<data, file>>)>>
             a == Get(file, "return")
             b == Get(data, "destroy")
             c == Try("destroy")
             d == Try("destroy")
             steps == <<a, b, c, d>>
             S == {a, b, c, d}
             D == {data, file}
  <1>1. kmr_gltf_loader_file_create = Function(steps, undo, <<data, file>>)
    BY DEF kmr_gltf_loader_file_create, Filled
  <1>2. /\ file # none /\ file \notin Passing
        /\ data # none /\ data \notin Passing
        /\ file # data
    BY SlotsApart
  <1>3. /\ a.slot = file /\ a.from = {} /\ Makes(a) /\ Surely(a) /\ Gives(a) = {}
        /\ a.label = "return"
        /\ b.slot = data /\ b.from = {} /\ Makes(b) /\ Surely(b) /\ Gives(b) = {}
        /\ b.label = "destroy"
        /\ c.from = {} /\ ~Makes(c) /\ Gives(c) = {} /\ c.label = "destroy"
        /\ d.from = {} /\ ~Makes(d) /\ Gives(d) = {} /\ d.label = "destroy"
    BY <1>2, GetFacts, TryFacts
  <1> HIDE DEF file, data, a, b, c, d
  <1>4. /\ Lists(<<data, file>>, {data, file})
    BY <1>2, ListsWritten
  <1>5. /\ Lists(Unwind(undo, "destroy"), {data, file})
        /\ Lists(Unwind(undo, "return"), {})
    BY <1>4, UnwindsOne
  <1> HIDE DEF undo
  <1>6. Stage(undo, left, steps, S)
    <2>1. /\ Follows(undo, left, a, b)
          /\ \A x \in {a, b} : Follows(undo, left, x, c)
          /\ \A x \in {a, b, c} : Follows(undo, left, x, d)
      BY <1>3, <1>5 DEF Follows, Undone, Lists
    <2>2. QED
      BY <2>1, StageFour
  <1>7. Plain(undo, S, D, optional) /\ \A s \in S : Makes(s) => s.slot \notin Passing
    BY <1>2, <1>3, <1>5 DEF Plain
  <1>8. QED
    BY <1>1, <1>4, <1>6, <1>7, TidyPlain

LEMMA NodeTidy ==
  ASSUME NEW left, NEW optional, NEW exempt
  PROVE  Tidy(kmr_gltf_loader_node_create, left, optional, exempt)
  <1> DEFINE node == <<"node">>
             data == <<"nodeData">>
             undo == <<At("destroy", <<data, node>>)>>
             a == Get(node, "destroy")
             b == Get(data, "destroy")
             steps == <<a, b>>
             S == {a, b}
             D == {data, node}
  <1>1. kmr_gltf_loader_node_create = Function(steps, undo, <<data, node>>)
    BY DEF kmr_gltf_loader_node_create, Filled
  <1>2. /\ node # none /\ node \notin Passing
        /\ data # none /\ data \notin Passing
        /\ node # data
    BY SlotsApart
  <1>3. /\ a.slot = node /\ a.from = {} /\ Makes(a) /\ Surely(a) /\ Gives(a) = {}
        /\ a.label = "destroy"
        /\ b.slot = data /\ b.from = {} /\ Makes(b) /\ Surely(b) /\ Gives(b) = {}
        /\ b.label = "destroy"
    BY <1>2, GetFacts
  <1> HIDE DEF node, data, a, b
  <1>4. /\ Lists(<<data, node>>, {data, node})
    BY <1>2, ListsWritten
  <1>5. /\ Lists(Unwind(undo, "destroy"), {data, node})
    BY <1>4, UnwindsOne
  <1> HIDE DEF undo
  <1>6. Stage(undo, left, steps, S)
    <2>1. Follows(undo, left, a, b)
      BY <1>3, <1>5 DEF Follows, Undone, Lists
    <2>2. QED
      BY <2>1, StageTwo
  <1>7. Plain(undo, S, D, optional) /\ \A s \in S : Makes(s) => s.slot \notin Passing
    BY <1>2, <1>3, <1>5 DEF Plain
  <1>8. QED
    BY <1>1, <1>4, <1>6, <1>7, TidyPlain

LEMMA InputTidy ==
  ASSUME NEW left, NEW optional, NEW exempt
  PROVE  Tidy(kmr_input_create, left, optional, exempt)
  <1> DEFINE input == <<"input">>
             udev == <<"udev">>
             inst == <<"inputInst">>
             undo == <<At("input_create", <<udev>> \o <<inst, input>>)>>
             a == Get(input, "input_create")
             b == Get(udev, "input_create")
             c == Get(inst, "input_create")
             d == Try("input_create")
             e == Free(udev)
             steps == <<a, b, c, d, e>>
             S == {a, b, c, d, e}
             D == {inst, input}
  <1>1. kmr_input_create = Function(steps, undo, <<inst, input>>)
    BY DEF kmr_input_create
  <1>2. /\ input # none /\ input \notin Passing
        /\ udev # none /\ udev \notin Passing
        /\ inst # none /\ inst \notin Passing
        /\ input # udev /\ input # inst /\ udev # inst
    BY SlotsApart
  <1>3. /\ a.slot = input /\ a.from = {} /\ Makes(a) /\ Surely(a) /\ Gives(a) = {}
        /\ a.label = "input_create"
        /\ b.slot = udev /\ b.from = {} /\ Makes(b) /\ Surely(b) /\ Gives(b) = {}
        /\ b.label = "input_create"
        /\ c.slot = inst /\ c.from = {} /\ Makes(c) /\ Surely(c) /\ Gives(c) = {}
        /\ c.label = "input_create"
        /\ d.from = {} /\ ~Makes(d) /\ Gives(d) = {} /\ d.label = "input_create"
        /\ e.from = {} /\ ~Makes(e) /\ ~Fails(e) /\ Gives(e) = {udev}
    BY <1>2, FreeFacts, GetFacts, TryFacts
  <1> HIDE DEF input, udev, inst, a, b, c, d, e
  <1>4. /\ Lists(<<inst, input>>, {inst, input})
        /\ Lists(<<udev>>, {udev})
    BY <1>2, ListsWritten
  <1>5. Lists(<<udev>> \o <<inst, input>>, {udev} \cup {inst, input})
    <2>1. {udev} \cap {inst, input} = {}
      BY <1>2
    <2>2. QED
      BY <1>4, <2>1, ListsConcat
  <1>6. /\ Lists(Unwind(undo, "input_create"), {udev} \cup {inst, input})
    BY <1>4, <1>5, UnwindsOne
  <1> HIDE DEF undo
  <1>7. Stage(undo, left, steps, S)
    <2>1. /\ Follows(undo, left, a, b)
          /\ \A x \in {a, b} : Follows(undo, left, x, c)
          /\ \A x \in {a, b, c} : Follows(undo, left, x, d)
          /\ \A x \in {a, b, c, d} : Follows(undo, left, x, e)
      BY <1>3, <1>6 DEF Follows, Undone, Lists
    <2>2. QED
      BY <2>1, StageFive
  <1>8. Plain(undo, S, D, optional) /\ \A s \in S : Makes(s) => s.slot \notin Passing
    BY <1>2, <1>3, <1>6 DEF Plain
  <1>9. QED
    BY <1>1, <1>4, <1>7, <1>8, TidyPlain

\* The textures before the one that is missing are known to be left.
LEMMA TextureImageTidy ==
  ASSUME NEW left, NEW optional, NEW exempt, NEW n \in Nat, Slots("pixels", n) \subseteq left
  PROVE  Tidy(kmr_gltf_loader_texture_image_create(n), left, optional, exempt)
  <1> DEFINE data == <<"imageData">>
             texture == <<"textureImage">>
             E == Slots("pixels", n)
             arrays == <<data, texture>>
             destroy == Each("pixels", n) \o arrays
             D == E \cup {data, texture}
             undo == <<At("destroy", arrays)>>
             a == Get(texture, "destroy")
             b == Get(data, "destroy")
             T == Gets("pixels", n, "destroy")
             steps == <<a, b>> \o GetEach("pixels", n, "destroy")
             S == {a, b} \cup T
  <1>1. kmr_gltf_loader_texture_image_create(n) = Function(steps, undo, destroy)
    BY DEF kmr_gltf_loader_texture_image_create
  <1>2. /\ data # none /\ data \notin Passing /\ texture # none /\ texture \notin Passing
        /\ data # texture /\ data \notin E /\ texture \notin E
        /\ E \cap Passing = {} /\ E \subseteq left
    BY SlotsApart
  <1>3. /\ Lists(Each("pixels", n), E) /\ Lists(arrays, {data, texture})
    BY <1>2, ListsEach, ListsWritten
  <1>4. /\ a.slot = texture /\ a.from = {} /\ Makes(a) /\ Surely(a) /\ Gives(a) = {}
        /\ a.label = "destroy"
        /\ b.slot = data /\ b.from = {} /\ Makes(b) /\ Surely(b) /\ Gives(b) = {}
        /\ b.label = "destroy"
    BY <1>2, GetFacts
  <1>5. /\ \A s \in T : /\ s.slot \in E /\ s.from = {} /\ s.label = "destroy"
                        /\ Makes(s) /\ Surely(s) /\ Gives(s) = {}
        /\ \A x \in E : \E s \in T : s.slot = x
    BY GetsFacts
  <1>6. Stage(undo, left, GetEach("pixels", n, "destroy"), T)
    BY StageGetEach
  <1> HIDE DEF data, texture, E, a, b, T
  <1>7. Lists(Unwind(undo, "destroy"), {data, texture})
    BY <1>3, UnwindsOne
  <1> HIDE DEF undo
  <1>8. Lists(destroy, D)
    <2>1. E \cap {data, texture} = {}
      BY <1>2
    <2>2. QED
      BY <1>3, <2>1, ListsConcat
  <1>9. Stage(undo, left, steps, S)
    <2>1. Stage(undo, left, <<a, b>>, {a, b})
      BY <1>4, <1>7, StageTwo DEF Follows, Undone, Lists
    <2>2. \A x \in {a, b}, y \in T : Follows(undo, left, x, y)
      BY <1>4, <1>5, <1>7 DEF Follows, Undone, Lists
    <2>3. QED
      BY <1>6, <2>1, <2>2, StageConcat
  <1>10. Plain(undo, S, D, optional) /\ \A s \in S : Makes(s) => s.slot \notin Passing
    BY <1>2, <1>4, <1>5, <1>7 DEF Plain
  <1>11. QED
    BY <1>1, <1>8, <1>9, <1>10, TidyPlain

LEMMA SessionTidy ==
  ASSUME NEW left, NEW optional, NEW exempt
  PROVE  Tidy(kmr_session_create, left, optional, exempt)
  <1> DEFINE session == <<"session">>
             seat == <<"seat">>
             D == {seat, session}
             undo == <<At("destroy", <<seat, session>>)>>
             a == Get(session, "destroy")
             b == Get(seat, "destroy")
             T == Tries(3, "destroy")
             steps == <<a, b>> \o TryEach(3, "destroy")
             S == {a, b} \cup T
  <1>1. kmr_session_create = Function(steps, undo, <<seat, session>>)
    BY DEF kmr_session_create, Filled
  <1>2. /\ session # none /\ session \notin Passing /\ seat # none /\ seat \notin Passing
        /\ seat # session
    BY SlotsApart
  <1>3. /\ a.slot = session /\ a.from = {} /\ Makes(a) /\ Surely(a) /\ Gives(a) = {}
        /\ a.label = "destroy"
        /\ b.slot = seat /\ b.from = {} /\ Makes(b) /\ Surely(b) /\ Gives(b) = {}
        /\ b.label = "destroy"
    BY <1>2, GetFacts
  <1>4. \A t \in T : t.from = {} /\ ~Makes(t) /\ Gives(t) = {} /\ t.label = "destroy"
    BY TriesFacts
  <1>5. Stage(undo, left, TryEach(3, "destroy"), T)
    BY StageTryEach
  <1> HIDE DEF session, seat, a, b, T
  <1>6. Lists(<<seat, session>>, D)
    BY <1>2, ListsWritten
  <1>7. Lists(Unwind(undo, "destroy"), D)
    BY <1>6, UnwindsOne
  <1> HIDE DEF undo
  <1>8. Stage(undo, left, steps, S)
    <2>1. Stage(undo, left, <<a, b>>, {a, b})
      BY <1>3, <1>7, StageTwo DEF Follows, Undone, Lists
    <2>2. \A x \in {a, b}, y \in T : Follows(undo, left, x, y)
      BY <1>3, <1>4, <1>7 DEF Follows, Undone, Lists
    <2>3. QED
      BY <1>5, <2>1, <2>2, StageConcat
  <1>9. Plain(undo, S, D, optional) /\ \A s \in S : Makes(s) => s.slot \notin Passing
    BY <1>2, <1>3, <1>4, <1>7 DEF Plain
  <1>10. QED
    BY <1>1, <1>6, <1>8, <1>9, TidyPlain

\* The sync file is closed on every path but the first, where it is known to be left.
LEMMA ImportDmabufTidy ==
  ASSUME NEW left, <<"syncFileFd">> \in left, NEW optional, NEW exempt, NEW n \in Nat
  PROVE  Tidy(kmr_dma_buf_import_sync_file_create(n), left, optional, exempt)
  <1> DEFINE fd == <<"syncFileFd">>
             undo == <<At("close", <<fd>>)>>
             a == Try("return")
             T == Tries(n, "close")
             b == Free(fd)
             steps == <<a>> \o TryEach(n, "close") \o <<b>>
             S == ({a} \cup T) \cup {b}
             c == kmr_dma_buf_import_sync_file_create(n)
  <1>1. /\ c.steps = steps /\ c.undo = undo /\ c.destroy = <<>>
        /\ c.given = {fd} /\ c.junk = {}
    <2>1. c = [Function(steps, undo, <<>>) EXCEPT !.given = {fd}]
      BY DEF kmr_dma_buf_import_sync_file_create
    <2> HIDE DEF c, steps, undo
    <2>2. QED
      BY <2>1 DEF Function
  <1>2. /\ a.from = {} /\ ~Makes(a) /\ Gives(a) = {} /\ a.label = "return"
        /\ b.from = {} /\ ~Makes(b) /\ ~Surely(b) /\ ~Fails(b) /\ Gives(b) = {fd}
    BY TryFacts, FreeFacts
  <1>3. \A t \in T : t.from = {} /\ ~Makes(t) /\ Gives(t) = {} /\ t.label = "close"
    BY TriesFacts
  <1>4. Stage(undo, left, TryEach(n, "close"), T)
    BY StageTryEach
  <1>5. fd \in left
    OBVIOUS
  <1> HIDE DEF fd, a, b, T, c
  <1>6. /\ Lists(Unwind(undo, "close"), {fd}) /\ Lists(Unwind(undo, "return"), {})
        /\ Lists(<<>>, {})
    <2>1. Lists(<<fd>>, {fd})
      BY ListsWritten
    <2>2. QED
      BY <2>1, ListsWritten, UnwindsOne
  <1> HIDE DEF undo
  <1>7. Stage(undo, left, steps, S)
    <2>1. Stage(undo, left, <<a>>, {a}) /\ Stage(undo, left, <<b>>, {b})
      BY StageOne
    <2>2. \A x \in {a}, y \in T : Follows(undo, left, x, y)
      BY <1>2, <1>3 DEF Follows
    <2>3. Stage(undo, left, <<a>> \o TryEach(n, "close"), {a} \cup T)
      BY <1>4, <2>1, <2>2, StageConcat
    <2>4. \A x \in {a} \cup T, y \in {b} : Follows(undo, left, x, y)
      BY <1>2, FollowsAny
    <2>5. QED
      BY <2>1, <2>3, <2>4, StageConcat
  <1>8. \A s \in S : Sound(undo, {fd}, left, s)
    BY <1>2, <1>3, <1>5, <1>6 DEF Sound, Undone, Lists
  <1>9. Passes(steps)
    BY <1>2, <1>3, <1>7, NonePass DEF Stage
  <1>10. Ending(steps, <<>>, {fd}, {}, optional)
    BY <1>2, <1>3, <1>6, <1>7 DEF Ending, Stage, Lists
  <1> HIDE DEF steps, S
  <1>11. Tidy(c, left, optional, exempt)
    BY <1>1, <1>7, <1>8, <1>9, <1>10 DEF Tidy, Stage
  <1>12. QED
    BY <1>11 DEF c

\* The descriptors that were not filled in are junk where an export fails.
LEMMA ExportDmabufTidy ==
  ASSUME NEW left, NEW optional, NEW n \in Nat
  PROVE  Tidy(kmr_dma_buf_export_sync_file_create(n), left, optional, TRUE)
  <1> DEFINE fds == <<"syncFileFds">>
             file == <<"exportSyncFile">>
             E == Slots("fd", n)
             D == E \cup {fds, file}
             destroy == Each("fd", n) \o <<fds, file>>
             undo == <<At("destroy", destroy)>>
             a == Try("return")
             b == Get(file, "return")
             d == GetOrCrash(fds)
             T == Gets("fd", n, "destroy")
             steps == <<a, b, d>> \o GetEach("fd", n, "destroy")
             S == {a, b, d} \cup T
             c == kmr_dma_buf_export_sync_file_create(n)
  <1>1. /\ c.steps = steps /\ c.undo = undo /\ c.destroy = destroy
        /\ c.given = {} /\ c.junk = E
    <2>1. c = [Function(steps, undo, destroy) EXCEPT !.junk = E]
      BY DEF kmr_dma_buf_export_sync_file_create, Filled, Slots
    <2> HIDE DEF c, steps, undo, destroy, E
    <2>2. QED
      BY <2>1 DEF Function
  <1>2. /\ fds # none /\ fds \notin Passing /\ file # none /\ file \notin Passing
        /\ fds # file /\ fds \notin E /\ file \notin E /\ E \cap Passing = {}
    BY SlotsApart
  <1>3. Lists(Each("fd", n), E) /\ Lists(<<fds, file>>, {fds, file})
    BY <1>2, ListsEach, ListsWritten
  <1>4. /\ a.from = {} /\ ~Makes(a) /\ Gives(a) = {} /\ a.label = "return"
        /\ b.slot = file /\ b.from = {} /\ Makes(b) /\ Surely(b) /\ Gives(b) = {}
        /\ b.label = "return"
        /\ d.slot = fds /\ d.from = {} /\ Makes(d) /\ Surely(d) /\ Gives(d) = {} /\ ~Fails(d)
    BY <1>2, TryFacts, GetFacts, OrCrashFacts
  <1>5. /\ \A s \in T : /\ s.slot \in E /\ s.from = {} /\ s.label = "destroy"
                        /\ Makes(s) /\ Surely(s) /\ Writes(s) /\ Gives(s) = {}
        /\ \A x \in E : \E s \in T : s.slot = x
    BY GetsFacts
  <1> HIDE DEF fds, file, E, a, b, d, T, c
  <1>6. Lists(destroy, D)
    <2>1. E \cap {fds, file} = {}
      BY <1>2
    <2>2. QED
      BY <1>3, <2>1, ListsConcat
  <1> HIDE DEF destroy
  <1>7. Lists(Unwind(undo, "destroy"), D) /\ Lists(Unwind(undo, "return"), {})
    BY <1>6, UnwindsOne
  <1> HIDE DEF undo
  <1>8. Stage(undo, left, GetEach("fd", n, "destroy"), T)
    BY <1>7, StageGetEach DEF E, T, Lists
  <1>9. Stage(undo, left, steps, S)
    <2>1. Follows(undo, left, a, b) /\ \A x \in {a, b} : Follows(undo, left, x, d)
      BY <1>4 DEF Follows
    <2>2. Stage(undo, left, <<a, b, d>>, {a, b, d})
      BY <2>1, StageThree
    <2>3. \A x \in {a, b, d}, y \in T : Follows(undo, left, x, y)
      BY <1>4, <1>5, <1>7 DEF Follows, Undone, Lists
    <2>4. QED
      BY <1>8, <2>2, <2>3, StageConcat
  <1>10. Plain(undo, S, D, optional) /\ \A s \in S : Makes(s) => s.slot \notin Passing
    BY <1>2, <1>4, <1>5, <1>7 DEF Plain
  <1>11. Passes(steps)
    BY <1>9, <1>10, NonePass DEF Stage
  <1>12. \A x \in c.junk : \E s \in S : Writes(s) /\ s.slot = x
    BY <1>1, <1>5
  <1> HIDE DEF steps, S, D
  <1>13. Tidy(c, left, optional, TRUE)
    BY <1>1, <1>6, <1>9, <1>10, <1>11, <1>12, TidyWhen
  <1>14. QED
    BY <1>13 DEF c

\* A mesh may have no indices; its vertices are there, or the program has crashed.
LEMMA MeshTidy ==
  ASSUME NEW left, NEW optional, NEW exempt, NEW n \in Nat,
         Slots("indexBufferData", n) \subseteq optional
  PROVE  Tidy(kmr_gltf_loader_mesh_create(n), left, optional, exempt)
  <1> DEFINE mesh == <<"mesh">>
             data == <<"meshData">>
             V == Slots("vertexBufferData", n)
             X == Slots("indexBufferData", n)
             D == (V \cup X) \cup {data, mesh}
             destroy == Each("vertexBufferData", n) \o Each("indexBufferData", n) \o <<data, mesh>>
             undo == <<At("destroy", destroy)>>
             a == Get(mesh, "return")
             b == Get(data, "destroy")
             M == [i \in 1..n |-> {GetOrCrash(<<"vertexBufferData", i>>),
                                   GetMaybe(<<"indexBufferData", i>>, "destroy"), Try("destroy")}]
             part == [i \in 1..n |-> mesh_data(i)]
             steps == <<a, b>> \o Loop(part)
             S == {a, b} \cup AllOf(M, n)
  <1>1. kmr_gltf_loader_mesh_create(n) = Function(steps, undo, destroy)
    BY DEF kmr_gltf_loader_mesh_create, Filled
  <1>2. /\ mesh # none /\ mesh \notin Passing /\ data # none /\ data \notin Passing /\ mesh # data
        /\ mesh \notin V \cup X /\ data \notin V \cup X
        /\ V \cap X = {} /\ V \cap Passing = {} /\ X \cap Passing = {} /\ X \subseteq optional
    BY SlotsApart
  <1>3. /\ Lists(Each("vertexBufferData", n), V) /\ Lists(Each("indexBufferData", n), X)
        /\ Lists(<<data, mesh>>, {data, mesh})
    BY <1>2, ListsEach, ListsWritten
  <1>4. /\ a.slot = mesh /\ a.from = {} /\ Makes(a) /\ Surely(a) /\ Gives(a) = {}
        /\ a.label = "return"
        /\ b.slot = data /\ b.from = {} /\ Makes(b) /\ Surely(b) /\ Gives(b) = {}
        /\ b.label = "destroy"
    BY <1>2, GetFacts
  <1>5. ASSUME NEW i \in 1..n
        PROVE  /\ \A s \in M[i] : /\ s.from = {} /\ Gives(s) = {}
                                  /\ Makes(s) => s.slot \in V \cup X
                                  /\ Fails(s) => s.label = "destroy"
               /\ \E s \in M[i] : Surely(s) /\ s.slot = <<"vertexBufferData", i>>
    <2> DEFINE v == <<"vertexBufferData", i>>
               x == <<"indexBufferData", i>>
               p == GetOrCrash(v)
               q == GetMaybe(x, "destroy")
               r == Try("destroy")
    <2>1. M[i] = {p, q, r}
      OBVIOUS
    <2>2. v \in V /\ x \in X /\ v # none
      BY SlotsApart DEF Slots
    <2>3. /\ p.slot = v /\ p.from = {} /\ Surely(p) /\ ~Fails(p) /\ Gives(p) = {}
          /\ q.slot = x /\ q.from = {} /\ Gives(q) = {} /\ q.label = "destroy"
          /\ r.from = {} /\ ~Makes(r) /\ Gives(r) = {} /\ r.label = "destroy"
      BY <2>2, OrCrashFacts, GetMaybeFacts, TryFacts
    <2> HIDE DEF v, x, p, q, r, V, X, M
    <2>4. QED
      BY <2>1, <2>2, <2>3 DEF v
  <1>6. \A x \in V : \E i \in 1..n : x = <<"vertexBufferData", i>>
    BY DEF Slots
  <1> HIDE DEF mesh, data, V, X, a, b
  <1>7. Lists(destroy, D)
    <2>1. Lists(Each("vertexBufferData", n) \o Each("indexBufferData", n), V \cup X)
      BY <1>2, <1>3, ListsConcat
    <2>2. (V \cup X) \cap {data, mesh} = {}
      BY <1>2
    <2>3. QED
      BY <1>3, <2>1, <2>2, ListsConcat
  <1> HIDE DEF destroy
  <1>8. Lists(Unwind(undo, "destroy"), D) /\ Lists(Unwind(undo, "return"), {})
    BY <1>7, UnwindsOne
  <1> HIDE DEF undo
  <1>9. ASSUME NEW i \in 1..n, NEW s \in M[i], NEW t,
               (t \in {a, b} \/ \E j \in 1..n : t \in M[j])
        PROVE  Follows(undo, left, t, s)
    <2>1. Fails(s) => Undone(undo, s) = D
      BY <1>5, <1>8 DEF Undone, Lists
    <2>2. Gives(t) = {} /\ (Makes(t) => t.slot \in D)
      BY <1>4, <1>5, <1>9
    <2> HIDE DEF M, D
    <2>3. QED
      BY <2>1, <2>2 DEF Follows
  <1>10. Stage(undo, left, Loop(part), AllOf(M, n))
    <2>1. part = [i \in 1..n |-> part[i]]
      OBVIOUS
    <2>2. ASSUME NEW i \in 1..n PROVE Stage(undo, left, part[i], M[i])
      <3> DEFINE p == GetOrCrash(<<"vertexBufferData", i>>)
                 q == GetMaybe(<<"indexBufferData", i>>, "destroy")
                 r == Try("destroy")
      <3>1. part[i] = <<p, q, r>> /\ M[i] = {p, q, r}
        BY DEF mesh_data
      <3> HIDE DEF p, q, r, M, part
      <3>2. Follows(undo, left, p, q) /\ \A x \in {p, q} : Follows(undo, left, x, r)
        BY <1>9, <3>1
      <3>3. QED
        BY <3>1, <3>2, StageThree
    <2>3. \A j, k \in 1..n : j < k => \A x \in M[j], y \in M[k] : Follows(undo, left, x, y)
      <3> HIDE DEF M
      <3>1. QED
        BY <1>9
    <2> HIDE DEF M, part
    <2>4. QED
      BY <2>1, <2>2, <2>3, StageLoop DEF Parts
  <1> HIDE DEF M, part
  <1>11. Stage(undo, left, steps, S)
    <2>1. Follows(undo, left, a, b)
      BY <1>4, <1>8 DEF Follows, Undone, Lists
    <2>2. Stage(undo, left, <<a, b>>, {a, b})
      BY <2>1, StageTwo
    <2>3. \A x \in {a, b}, y \in AllOf(M, n) : Follows(undo, left, x, y)
      BY <1>9, AllOfHolds
    <2>4. QED
      BY <1>10, <2>2, <2>3, StageConcat
  <1>12. \A s \in AllOf(M, n) : /\ s.from = {} /\ Gives(s) = {}
                                /\ Makes(s) => s.slot \in V \cup X
                                /\ Fails(s) => s.label = "destroy"
    BY <1>5, AllOfHolds
  <1>13. \A x \in V : \E s \in AllOf(M, n) : Surely(s) /\ s.slot = x
    BY <1>5, <1>6, AllOfHolds
  <1>14. Plain(undo, S, D, optional) /\ \A s \in S : Makes(s) => s.slot \notin Passing
    BY <1>2, <1>4, <1>8, <1>12, <1>13 DEF Plain
  <1>15. QED
    BY <1>1, <1>7, <1>11, <1>14, TidyPlain

\* The name of a material is not checked; its textures are there, or the program has crashed.
LEMMA MaterialTidy ==
  ASSUME NEW left, NEW optional, NEW exempt, NEW n \in Nat,
         Slots("materialName", n) \subseteq optional
  PROVE  Tidy(kmr_gltf_loader_material_create(n), left, optional, exempt)
  <1> DEFINE material == <<"material">>
             data == <<"materialData">>
             X == Slots("materialName", n)
             D == X \cup {data, material}
             destroy == Each("materialName", n) \o <<data, material>>
             undo == <<At("destroy", destroy)>>
             a == Get(material, "destroy")
             b == Get(data, "destroy")
             M == [i \in 1..n |-> {GetOrSkip(<<"materialName", i>>), GetOrCrash(none)}]
             part == [i \in 1..n |-> material_data(i)]
             steps == <<a, b>> \o Loop(part)
             S == {a, b} \cup AllOf(M, n)
  <1>1. kmr_gltf_loader_material_create(n) = Function(steps, undo, destroy)
    BY DEF kmr_gltf_loader_material_create, Filled
  <1>2. /\ material # none /\ material \notin Passing /\ data # none /\ data \notin Passing
        /\ material # data /\ material \notin X /\ data \notin X
        /\ X \cap Passing = {} /\ X \subseteq optional
    BY SlotsApart
  <1>3. Lists(Each("materialName", n), X) /\ Lists(<<data, material>>, {data, material})
    BY <1>2, ListsEach, ListsWritten
  <1>4. /\ a.slot = material /\ a.from = {} /\ Makes(a) /\ Surely(a) /\ Gives(a) = {}
        /\ a.label = "destroy"
        /\ b.slot = data /\ b.from = {} /\ Makes(b) /\ Surely(b) /\ Gives(b) = {}
        /\ b.label = "destroy"
    BY <1>2, GetFacts
  <1>5. ASSUME NEW i \in 1..n
        PROVE  \A s \in M[i] : /\ s.from = {} /\ Gives(s) = {} /\ ~Fails(s)
                               /\ Makes(s) => s.slot \in X
    <2> DEFINE x == <<"materialName", i>>
               p == GetOrSkip(x)
               q == GetOrCrash(none)
    <2>1. M[i] = {p, q}
      OBVIOUS
    <2>2. x \in X
      BY DEF Slots
    <2>3. /\ p.slot = x /\ p.from = {} /\ Gives(p) = {} /\ ~Fails(p)
          /\ q.from = {} /\ ~Makes(q) /\ Gives(q) = {} /\ ~Fails(q)
      BY OrSkipFacts, OrCrashFacts
    <2> HIDE DEF x, p, q, X, M
    <2>4. QED
      BY <2>1, <2>2, <2>3
  <1> HIDE DEF material, data, X, a, b
  <1>6. Lists(destroy, D)
    <2>1. X \cap {data, material} = {}
      BY <1>2
    <2>2. QED
      BY <1>3, <2>1, ListsConcat
  <1> HIDE DEF destroy
  <1>7. Lists(Unwind(undo, "destroy"), D)
    BY <1>6, UnwindsOne
  <1> HIDE DEF undo
  <1>8. ASSUME NEW i \in 1..n, NEW s \in M[i], NEW t,
               (t \in {a, b} \/ \E j \in 1..n : t \in M[j])
        PROVE  Follows(undo, left, t, s)
    <2>1. ~Fails(s) /\ Gives(t) = {}
      BY <1>4, <1>5, <1>8
    <2> HIDE DEF M, D
    <2>2. QED
      BY <2>1 DEF Follows
  <1>9. Stage(undo, left, Loop(part), AllOf(M, n))
    <2>1. part = [i \in 1..n |-> part[i]]
      OBVIOUS
    <2>2. ASSUME NEW i \in 1..n PROVE Stage(undo, left, part[i], M[i])
      <3> DEFINE p == GetOrSkip(<<"materialName", i>>)
                 q == GetOrCrash(none)
      <3>1. part[i] = <<p, q>> /\ M[i] = {p, q}
        BY DEF material_data
      <3> HIDE DEF p, q, M, part
      <3>2. Follows(undo, left, p, q)
        BY <1>8, <3>1
      <3>3. QED
        BY <3>1, <3>2, StageTwo
    <2>3. \A j, k \in 1..n : j < k => \A x \in M[j], y \in M[k] : Follows(undo, left, x, y)
      <3> HIDE DEF M
      <3>1. QED
        BY <1>8
    <2> HIDE DEF M, part
    <2>4. QED
      BY <2>1, <2>2, <2>3, StageLoop DEF Parts
  <1> HIDE DEF M, part
  <1>10. Stage(undo, left, steps, S)
    <2>1. Follows(undo, left, a, b)
      BY <1>4, <1>7 DEF Follows, Undone, Lists
    <2>2. Stage(undo, left, <<a, b>>, {a, b})
      BY <2>1, StageTwo
    <2>3. \A x \in {a, b}, y \in AllOf(M, n) : Follows(undo, left, x, y)
      BY <1>8, AllOfHolds
    <2>4. QED
      BY <1>9, <2>2, <2>3, StageConcat
  <1>11. \A s \in AllOf(M, n) : /\ s.from = {} /\ Gives(s) = {} /\ ~Fails(s)
                                /\ Makes(s) => s.slot \in X
    BY <1>5, AllOfHolds
  <1>12. Plain(undo, S, D, optional) /\ \A s \in S : Makes(s) => s.slot \notin Passing
    BY <1>2, <1>4, <1>7, <1>11 DEF Plain
  <1>13. QED
    BY <1>1, <1>6, <1>10, <1>12, TidyPlain

\* Each device is given back by the step after the one that got it, which may not have.
LEMMA DrmNodeTidy ==
  ASSUME NEW left, NEW optional, NEW exempt, NEW n \in Nat
  PROVE  Tidy(open_drm_node_udev(n), left, optional, exempt)
  <1> DEFINE udev == <<"udev">>
             enum == <<"udevEnum">>
             l == "open_node_udev"
             undo == <<At(l, <<enum, udev>>)>>
             a == Get(udev, l)
             b == Get(enum, l)
             d == Try(l)
             e == Free(enum)
             f == Free(udev)
             p(i) == GetOrSkip(<<"device", i>>)
             q(i) == Free(<<"device", i>>)
             M == [i \in 1..n |-> {p(i), q(i)}]
             part == [i \in 1..n |-> <<p(i), q(i)>>]
             before == <<a, b, d>>
             after == <<d, e, f>>
             steps == before \o Loop(part) \o after
             S == ({a, b, d} \cup AllOf(M, n)) \cup {d, e, f}
             c == open_drm_node_udev(n)
  <1>1. /\ c.steps = steps /\ c.undo = undo /\ c.destroy = <<>>
        /\ c.given = {} /\ c.junk = {}
    <2>1. c = Function(steps, undo, <<>>)
      BY DEF open_drm_node_udev
    <2> HIDE DEF c, steps, undo
    <2>2. QED
      BY <2>1 DEF Function
  <1>2. udev # none /\ enum # none /\ udev # enum /\ udev \notin Passing /\ enum \notin Passing
    BY SlotsApart
  <1>3. /\ a.slot = udev /\ a.from = {} /\ Makes(a) /\ Gives(a) = {} /\ a.label = l
        /\ b.slot = enum /\ b.from = {} /\ Makes(b) /\ Gives(b) = {} /\ b.label = l
        /\ d.from = {} /\ ~Makes(d) /\ Gives(d) = {} /\ d.label = l
        /\ e.from = {} /\ ~Makes(e) /\ ~Fails(e) /\ Gives(e) = {enum}
        /\ f.from = {} /\ ~Makes(f) /\ ~Fails(f) /\ Gives(f) = {udev}
    BY <1>2, GetFacts, TryFacts, FreeFacts
  <1>4. ASSUME NEW i \in 1..n
        PROVE  /\ p(i).slot = <<"device", i>> /\ p(i).from = {} /\ ~Fails(p(i)) /\ Gives(p(i)) = {}
               /\ q(i).slot = <<"device", i>> /\ q(i).does = "free" /\ q(i).from = {}
               /\ ~Makes(q(i)) /\ ~Fails(q(i)) /\ Gives(q(i)) = {<<"device", i>>}
               /\ <<"device", i>> \in Passing /\ <<"device", i>> \notin {udev, enum}
    <2>1. <<"device", i>> \in Passing /\ <<"device", i>> \notin {udev, enum}
      BY DEF Passing
    <2>2. QED
      BY <2>1, OrSkipFacts, FreeFacts
  <1>5. /\ part = [i \in 1..n |-> part[i]]
        /\ \A i \in 1..n : part[i] = <<p(i), q(i)>> /\ M[i] = {p(i), q(i)}
    OBVIOUS
  <1> HIDE DEF udev, enum, l, a, b, d, e, f, p, q, M, part, c
  <1>6. Lists(<<enum, udev>>, {enum, udev}) /\ Lists(<<>>, {})
    BY <1>2, ListsWritten
  <1>7. Lists(Unwind(undo, l), {enum, udev})
    BY <1>6, UnwindsOne
  <1> HIDE DEF undo
  <1>8. Stage(undo, left, Loop(part), AllOf(M, n)) /\ Passes(Loop(part))
    <2>1. ASSUME NEW i \in 1..n PROVE Stage(undo, left, part[i], M[i]) /\ Passes(part[i])
      <3> DEFINE x == p(i)
                 y == q(i)
                 s == <<x, y>>
      <3>1. /\ part[i] = s /\ M[i] = {x, y}
            /\ ~Makes(y) /\ ~Fails(y) /\ y.does = "free" /\ y.slot = x.slot
        BY <1>4, <1>5
      <3> HIDE DEF x, y
      <3>2. Stage(undo, left, part[i], M[i])
        <4>1. Follows(undo, left, x, y)
          BY <3>1, FollowsAny
        <4>2. QED
          BY <3>1, <4>1, StageTwo
      <3>3. DOMAIN s = {1, 2} /\ s[1] = x /\ s[2] = y
        OBVIOUS
      <3> HIDE DEF s
      <3>4. Passes(part[i])
        BY <3>1, <3>3 DEF Passes
      <3>5. QED
        BY <3>2, <3>4
    <2>2. ASSUME NEW j \in 1..n, NEW k \in 1..n, j < k, NEW x \in M[j], NEW y \in M[k]
          PROVE  Follows(undo, left, x, y)
      <3>1. /\ x = p(j) \/ x = q(j)
            /\ y = p(k) \/ y = q(k)
        BY <1>5
      <3>2. <<"device", j>> # <<"device", k>>
        BY <2>2
      <3>3. QED
        BY <1>4, <3>1, <3>2 DEF Follows
    <2>3. Stage(undo, left, Loop(part), AllOf(M, n))
      BY <1>5, <2>1, <2>2, StageLoop DEF Parts
    <2>4. IsSeq(part) /\ DOMAIN part = 1..n
      BY <1>5, Tabulated
    <2>5. Passes(Loop(part))
      BY <2>1, <2>4, FlattenPasses DEF Stage, Loop
    <2>6. QED
      BY <2>3, <2>5
  <1>9. ASSUME NEW s \in AllOf(M, n)
        PROVE  /\ s.from = {} /\ ~Fails(s) /\ s.slot \notin {udev, enum}
               /\ \E t \in AllOf(M, n) : Gives(t) = {s.slot}
               /\ Makes(s) => s.slot \in Passing /\ Gives(s) = {}
               /\ Gives(s) \cap {udev, enum} = {}
               /\ ~Makes(s) => Gives(s) = {s.slot}
    <2>1. PICK i \in 1..n : s \in M[i]
      BY AllOfHolds
    <2>2. s = p(i) \/ s = q(i)
      BY <1>5, <2>1
    <2>3. q(i) \in AllOf(M, n)
      BY <1>5, AllOfHolds
    <2>4. <<"device", i>> # none
      BY SlotsApart
    <2>5. Makes(p(i))
      BY <1>4, <2>4, OrSkipFacts DEF p
    <2>6. QED
      BY <1>4, <2>2, <2>3, <2>5
  <1>10. Stage(undo, left, before, {a, b, d}) /\ Stage(undo, left, after, {d, e, f})
    <2>1. Follows(undo, left, a, b) /\ \A x \in {a, b} : Follows(undo, left, x, d)
      BY <1>3, <1>7 DEF Follows, Undone, Lists
    <2>2. Follows(undo, left, d, e) /\ \A x \in {d, e} : Follows(undo, left, x, f)
      BY <1>3, FollowsAny
    <2>3. QED
      BY <2>1, <2>2, StageThree
  <1>11. Stage(undo, left, steps, S)
    <2>1. \A x \in {a, b, d}, y \in AllOf(M, n) : Follows(undo, left, x, y)
      BY <1>3, <1>9 DEF Follows
    <2>2. Stage(undo, left, before \o Loop(part), {a, b, d} \cup AllOf(M, n))
      BY <1>8, <1>10, <2>1, StageConcat
    <2>3. ASSUME NEW x \in {a, b, d} \cup AllOf(M, n), NEW y \in {d, e, f}
          PROVE  Follows(undo, left, x, y)
      <3>1. /\ Makes(x) => x.slot \in {enum, udev} \cup Passing
            /\ Gives(x) \cap {enum, udev} = {}
        BY <1>3, <1>9
      <3>2. QED
        BY <1>3, <1>7, <3>1 DEF Follows, Undone, Lists
    <2>4. QED
      BY <1>10, <2>2, <2>3, StageConcat
  <1>12. Passes(steps)
    <2>1. IsSeq(before) /\ IsSeq(after) /\ IsSeq(Loop(part))
      BY <1>8, <1>10 DEF Stage
    <2>2. Passes(before) /\ Passes(after)
      BY <1>2, <1>3, <1>10, NonePass DEF Stage
    <2>3. IsSeq(before \o Loop(part)) /\ Passes(before \o Loop(part))
      BY <1>8, <2>1, <2>2, Concat, ConcatPasses
    <2>4. QED
      BY <2>1, <2>2, <2>3, ConcatPasses
  <1>13. Plain(undo, S, {}, optional)
    <2>1. \A s \in S : s.from = {} /\ (Fails(s) => s.label = l)
      BY <1>3, <1>9
    <2>2. \A s \in S : Makes(s) => \E t \in S : s.slot \in Gives(t)
      <3>1. \A s \in AllOf(M, n) : \E t \in AllOf(M, n) : s.slot \in Gives(t)
        BY <1>9
      <3>2. enum \in Gives(e) /\ udev \in Gives(f)
        BY <1>3
      <3>3. QED
        BY <1>3, <3>1, <3>2
    <2>3. QED
      BY <1>7, <2>1, <2>2 DEF Plain
  <1> HIDE DEF steps, S
  <1>14. Tidy(c, left, optional, exempt)
    BY <1>1, <1>6, <1>11, <1>12, <1>13, TidyWhen
  <1>15. QED
    BY <1>14 DEF c

-----------------------------------------------------------------------------
(* The functions of the specification are tidy.                            *)

OneObject == {"instance", "surface", "swapchain", "shader_module", "pipeline_layout",
              "render_pass", "graphics_pipeline", "descriptor_set_layout", "sampler",
              "format_properties", "export_sync_fd", "memory_fd", "aligned_buffer"}
OnePool  == {"command_buffer", "descriptor_set"}
OneQuery == {"surface_formats", "present_modes"}
Others   == {"phdev", "lgdev", "swapchain_image", "framebuffer", "sync_obj",
              "image_buffer", "file_load", "concat_file", "shm_file", "spirv",
              "gltf_file", "node", "input", "session", "drm_node_udev"}
Special  == {"image", "dmabuf_image", "buffer", "import_sync_fd", "mesh",
              "texture_image", "material", "import_dmabuf", "export_dmabuf"}

LEMMA NamesAre ==
  ASSUME Named
  PROVE  size \in Sizes /\ fn \in OneObject \cup OnePool \cup OneQuery \cup Others \cup Special
  <1> DEFINE first == CHOOSE k \in Sizes : TRUE
             all == OneObject \cup OnePool \cup OneQuery \cup Others \cup Special
  <1>1. fn \in Names /\ size \in Sizes
    BY DEF Named
  <1>2. first \in Sizes
    BY <1>1
  <1> HIDE DEF first
  <1>3. \A k \in Sizes : DOMAIN Source[k] \subseteq all
    BY DEF Source, OneObject, OnePool, OneQuery, Others, Special
  <1>4. Names = DOMAIN Source[first]
    BY DEF Names, first
  <1>5. QED
    BY <1>1, <1>2, <1>3, <1>4

LEMMA EveryTidy ==
  ASSUME Named
  PROVE  AllTidy
  <1>1. size \in Sizes /\ size \in Nat
    BY NamesAre, SizesAssumption
  <1>2. CASE fn \in OneObject
    <2>1. \E name : name # "none" /\ Code = Single(<<name>>)
      <3>1. /\ fn = "instance" => Code = kmr_vk_instance_create
            /\ fn = "surface" => Code = kmr_vk_surface_create
            /\ fn = "swapchain" => Code = kmr_vk_swapchain_create
            /\ fn = "shader_module" => Code = kmr_vk_shader_module_create
            /\ fn = "pipeline_layout" => Code = kmr_vk_pipeline_layout_create
            /\ fn = "render_pass" => Code = kmr_vk_render_pass_create
            /\ fn = "graphics_pipeline" => Code = kmr_vk_graphics_pipeline_create
            /\ fn = "descriptor_set_layout" => Code = kmr_vk_descriptor_set_layout_create
            /\ fn = "sampler" => Code = kmr_vk_sampler_create
            /\ fn = "format_properties" => Code = kmr_vk_get_phdev_format_properties
            /\ fn = "export_sync_fd" => Code = kmr_vk_sync_obj_export_external_sync_fd
            /\ fn = "memory_fd" => Code = kmr_vk_memory_export_external_fd
            /\ fn = "aligned_buffer" => Code = kmr_utils_aligned_buffer_create
        BY <1>1 DEF Code, Source
      <3>2. \E name \in {"instance", "surface", "swapchain", "shader_module",
                    "pipeline_layout", "render_pass", "graphics_pipeline",
                    "descriptor_set_layout", "sampler", "formatProperties", "fd", "fd",
                    "alignedBufferMemory"} :
              Code = Single(<<name>>)
        BY <1>2, <3>1
           DEF OneObject, kmr_vk_instance_create, kmr_vk_surface_create, kmr_vk_swapchain_create,
               kmr_vk_shader_module_create, kmr_vk_pipeline_layout_create,
               kmr_vk_render_pass_create, kmr_vk_graphics_pipeline_create,
               kmr_vk_descriptor_set_layout_create, kmr_vk_sampler_create,
               kmr_vk_get_phdev_format_properties,
               kmr_vk_sync_obj_export_external_sync_fd,
               kmr_vk_memory_export_external_fd, kmr_utils_aligned_buffer_create
      <3>3. QED
        BY <3>2
    <2>2. QED
      BY <2>1, SingleTidy DEF AllTidy
  <1>3. CASE fn \in OnePool
    <2>1. /\ fn = "command_buffer" => Code = kmr_vk_command_buffer_create
          /\ fn = "descriptor_set" => Code = kmr_vk_descriptor_set_create
      BY <1>1 DEF Code, Source
    <2>2. \E name \in {"commandBufferHandles", "descriptorSetHandles"} : Code = Pool(<<name>>)
      BY <1>3, <2>1 DEF OnePool, kmr_vk_command_buffer_create, kmr_vk_descriptor_set_create
    <2>3. QED
      BY <2>2, PoolTidy DEF AllTidy
  <1>4. CASE fn \in OneQuery
    <2>1. /\ fn = "surface_formats" => Code = kmr_vk_get_surface_formats
          /\ fn = "present_modes" => Code = kmr_vk_get_surface_present_modes
      BY <1>1 DEF Code, Source
    <2>2. \E name \in {"surfaceFormats", "presentModes"} : Code = Query(<<name>>)
      BY <1>4, <2>1 DEF OneQuery, kmr_vk_get_surface_formats, kmr_vk_get_surface_present_modes
    <2>3. QED
      BY <2>2, QueryTidy DEF AllTidy
  <1>5. CASE fn \in Others
    <2>1. /\ fn = "phdev" => Code = kmr_vk_phdev_create
          /\ fn = "lgdev" => Code = kmr_vk_lgdev_create(size)
          /\ fn = "swapchain_image" => Code = swapchain_image_create(size)
          /\ fn = "framebuffer" => Code = kmr_vk_framebuffer_create(size)
          /\ fn = "sync_obj" => Code = kmr_vk_sync_obj_create(size)
          /\ fn = "image_buffer" => Code = kmr_utils_image_buffer_create
          /\ fn = "file_load" => Code = kmr_utils_file_load
          /\ fn = "concat_file" => Code = kmr_utils_concat_file_to_dir
          /\ fn = "shm_file" => Code = allocate_shm_file
          /\ fn = "spirv" => Code = kmr_shader_spirv_create
          /\ fn = "gltf_file" => Code = kmr_gltf_loader_file_create
          /\ fn = "node" => Code = kmr_gltf_loader_node_create
          /\ fn = "input" => Code = kmr_input_create
          /\ fn = "session" => Code = kmr_session_create
          /\ fn = "drm_node_udev" => Code = open_drm_node_udev(size)
      BY <1>1 DEF Code, Source
    <2>2. QED
      BY <1>1, <1>5, <2>1, PhdevTidy, LgdevTidy, SwapchainImageTidy, FramebufferTidy, SyncObjTidy,
         ImageBufferTidy, FileLoadTidy, ConcatFileTidy, ShmFileTidy, SpirvTidy,
         GltfFileTidy, NodeTidy, InputTidy, SessionTidy, DrmNodeTidy
      DEF AllTidy, Others
  <1>6. CASE fn \in Special
    <2>1. /\ fn = "image" => Code = own_image_create(size, 1, FALSE)
          /\ fn = "dmabuf_image" => Code = own_image_create(size, 2, TRUE)
      <3>1. /\ Source[size]["image"] = own_image_create(size, 1, FALSE)
            /\ Source[size]["dmabuf_image"] = own_image_create(size, 2, TRUE)
        BY <1>1, Zenon DEF Source
      <3>2. QED
        BY <3>1 DEF Code
    <2>2. /\ fn = "buffer" => Code = kmr_vk_buffer_create
          /\ fn = "import_sync_fd" => Code = kmr_vk_sync_obj_import_external_sync_fd
          /\ fn = "mesh" => Code = kmr_gltf_loader_mesh_create(size)
          /\ fn = "texture_image" => Code = kmr_gltf_loader_texture_image_create(size)
          /\ fn = "material" => Code = kmr_gltf_loader_material_create(size)
          /\ fn = "import_dmabuf" => Code = kmr_dma_buf_import_sync_file_create(size)
          /\ fn = "export_dmabuf" => Code = kmr_dma_buf_export_sync_file_create(size)
      BY <1>1 DEF Code, Source
    <2>3. CASE fn \in {"mesh", "material"}
      <3>1. Slots("indexBufferData", size) \subseteq Optional /\ Slots("materialName", size) \subseteq Optional
        BY DEF Slots, Optional
      <3>2. QED
        BY <1>1, <2>2, <2>3, <3>1, MeshTidy, MaterialTidy DEF AllTidy
    <2>4. CASE fn \in {"image", "dmabuf_image"}
      <3>1. Exempt /\ \A i \in 1..size : <<"memoryCount", i>> \in Optional
        BY <2>4 DEF Exempt, Optional
      <3>2. fn = "dmabuf_image" => \A i \in 1..size, p \in 1..2 : dupFd(i, p) \in Left
        BY DEF Left, KnownLeaks, dupFd
      <3>3. QED
        BY <1>1, <2>1, <2>4, <3>1, <3>2, OwnImageTidy DEF AllTidy
    <2>5. CASE fn = "buffer"
      <3>1. <<"buffer">> \in Left
        BY <2>5 DEF Left, KnownLeaks
      <3>2. QED
        BY <2>2, <2>5, <3>1, BufferTidy DEF AllTidy
    <2>6. CASE fn = "import_sync_fd"
      <3>1. Code.kept = {<<"syncFd">>}
        BY <2>2, <2>6 DEF kmr_vk_sync_obj_import_external_sync_fd, Function
      <3>2. <<"syncFd">> \in Left
        BY <3>1 DEF Left
      <3>3. QED
        BY <2>2, <2>6, <3>2, ImportSyncFdTidy DEF AllTidy
    <2>7. CASE fn = "texture_image"
      <3>1. Slots("pixels", size) \subseteq Left
        BY <2>7 DEF Left, KnownLeaks, Slots
      <3>2. QED
        BY <1>1, <2>2, <2>7, <3>1, TextureImageTidy DEF AllTidy
    <2>8. CASE fn = "import_dmabuf"
      <3>1. <<"syncFileFd">> \in Left
        BY <2>8 DEF Left, KnownLeaks
      <3>2. QED
        BY <1>1, <2>2, <2>8, <3>1, ImportDmabufTidy DEF AllTidy
    <2>9. CASE fn = "export_dmabuf"
      <3>1. Exempt
        BY <2>9 DEF Exempt
      <3>2. QED
        BY <1>1, <2>2, <2>9, <3>1, ExportDmabufTidy DEF AllTidy
    <2>10. QED
      BY <1>6, <2>3, <2>4, <2>5, <2>6, <2>7, <2>8, <2>9 DEF Special
  <1>7. QED
    BY <1>2, <1>3, <1>4, <1>5, <1>6, NamesAre

-----------------------------------------------------------------------------
(* The theorems.                                                           *)

LEMMA InitHolds == Init => FunctionInv
  <1>1. ASSUME Init PROVE FunctionInv
    <2>1. Named
      BY <1>1 DEF Init, Named
    <2>2. QED
      BY <1>1, <2>1, EveryTidy, InitInv
  <1>2. QED
    BY <1>1

LEMMA StepHolds == FunctionInv /\ [Next]_vars => FunctionInv'
  <1>1. ASSUME FunctionInv, [Next]_vars PROVE FunctionInv'
    <2>1. AllTidy
      BY <1>1, EveryTidy DEF FunctionInv
    <2>2. QED
      BY <1>1, <2>1, NextKeeps
  <1>2. QED
    BY <1>1

\* However long the arrays a function is asked for, what it holds while it runs, and what
\* is left to release while it undoes or is destroyed, is what the steps behind it say.
THEOREM FunctionsAccount == Spec => []FunctionInv
  BY InitHolds, StepHolds, PTL DEF Spec

\* For arrays of every length, none of the create functions of vulkan.c, gltf-loader.c,
\* utils.c, shader.c, dma-buf.c, input.c, session.c and drm-node.c, nor the destroy
\* function that goes with it, releases what was released before, and only the images
\* and the export of sync files touch a variable that was never set.
THEOREM OwnReleasesOnly == Spec => []ReleasesOwn
  <1>1. FunctionInv => ReleasesOwn
    BY InvReleasesOwn
  <1>2. QED
    BY <1>1, FunctionsAccount, PTL

\* For arrays of every length, a create function that fails leaves nothing behind but the
\* four things KnownLeaks names, and one that is destroyed leaves nothing at all.
THEOREM NothingIsLost == Spec => []NothingLost
  <1>1. FunctionInv => NothingLost
    BY InvNothingLost
  <1>2. QED
    BY <1>1, FunctionsAccount, PTL

\* For arrays of every length, a create function that returns has made everything its
\* destroy function will release, but for indices and names that may be missing.
THEOREM WholeOnReturn == Spec => []ReturnsWhole
  <1>1. FunctionInv => ReturnsWhole
    <2>1. ASSUME FunctionInv PROVE ReturnsWhole
      <3>1. AllTidy
        BY <2>1, EveryTidy DEF FunctionInv
      <3>2. QED
        BY <2>1, <3>1, InvReturnsWhole
    <2>2. QED
      BY <2>1
  <1>2. QED
    BY <1>1, FunctionsAccount, PTL
=============================================================================
