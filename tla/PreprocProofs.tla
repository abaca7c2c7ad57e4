--------------------------- MODULE PreprocProofs ---------------------------
(***************************************************************************)
(* The counters of parse_file keep their shape in every balanced text, and *)
(* they implement the stack of groups of CondStack, for every set of names *)
(* and condition values and every bound.                                   *)
(***************************************************************************)
EXTENDS Preproc, SequenceTheorems, TLAPS

\* The three counters, with the levels read as group stacks, are all a step on
\* the groups depends on.
IInv == TypeOK /\ CountersShape

USE ConstantsAssumption

-----------------------------------------------------------------------------
(* What the counters say of the groups                                     *)

\* The groups of a counter triple are a sequence as long as its level.
LEMMA GroupsAreSeq ==
  ASSUME NEW l \in Nat, NEW a \in Int, NEW s \in Int
  PROVE  /\ GroupsOf(l, a, s) \in Seq(CS!Groups)
         /\ Len(GroupsOf(l, a, s)) = l
         /\ DOMAIN GroupsOf(l, a, s) = 1..l
         /\ \A k \in 1..l : GroupsOf(l, a, s)[k] = GroupAt(k, a, s)
<1>1. GroupsOf(l, a, s) \in [1..l -> CS!Groups]
  BY DEF GroupsOf, GroupAt, CS!Groups
<1> QED BY <1>1 DEF GroupsOf

\* A triple compiles exactly when the innermost level is the active one.
LEMMA CompilingIsActive ==
  ASSUME NEW l \in Nat, NEW a \in Int, NEW s \in Int, Shape(l, a, s)
  PROVE  (\A k \in 1..l : GroupsOf(l, a, s)[k] = "taken") <=> a = l
<1>1. CASE a = l
  <2>1. \A k \in 1..l : k <= a
    BY <1>1
  <2>2. \A k \in 1..l : GroupAt(k, a, s) = "taken"
    BY <2>1 DEF GroupAt
  <2>3. \A k \in 1..l : GroupsOf(l, a, s)[k] = GroupAt(k, a, s)
    BY GroupsAreSeq
  <2> QED BY <1>1, <2>2, <2>3
<1>2. CASE a # l
  <2>1. l \in 1..l /\ ~(l <= a)
    BY <1>2 DEF Shape
  <2>2. GroupsOf(l, a, s)[l] # "taken"
    BY <2>1, GroupsAreSeq DEF GroupAt
  <2> QED BY <2>1, <2>2, <1>2
<1> QED BY <1>1, <1>2

\* Raising the level by one group appends that group when the groups below it
\* stay what they are.
LEMMA RaiseAppends ==
  ASSUME NEW l \in Nat, NEW a \in Int, NEW s \in Int,
         NEW b \in Int, NEW t \in Int,
         \A k \in 1..l : GroupAt(k, b, t) = GroupAt(k, a, s)
  PROVE  GroupsOf(l + 1, b, t) = Append(GroupsOf(l, a, s), GroupAt(l + 1, b, t))
<1> DEFINE old == GroupsOf(l, a, s)
           new == GroupsOf(l + 1, b, t)
           g   == GroupAt(l + 1, b, t)
           app == Append(old, g)
<1>1. /\ old \in Seq(CS!Groups) /\ Len(old) = l
      /\ \A k \in 1..l : old[k] = GroupAt(k, a, s)
  BY GroupsAreSeq
<1>2. l + 1 \in Nat /\ g \in CS!Groups
  BY DEF GroupAt, CS!Groups
<1>3. /\ new \in Seq(CS!Groups) /\ Len(new) = l + 1
      /\ \A k \in 1..(l + 1) : new[k] = GroupAt(k, b, t)
  BY <1>2, GroupsAreSeq
<1> HIDE DEF old, new, g
<1>4. /\ app \in Seq(CS!Groups) /\ Len(app) = l + 1
      /\ \A k \in 1..l : app[k] = old[k]
      /\ app[l + 1] = g
  BY <1>1, <1>2, AppendProperties
<1> HIDE DEF app
<1>5. ASSUME NEW k \in 1..(l + 1)
      PROVE  new[k] = app[k]
  <2>1. CASE k = l + 1
    BY <2>1, <1>3, <1>4 DEF g
  <2>2. CASE k # l + 1
    <3>1. k \in 1..l
      BY <2>2
    <3> QED BY <3>1, <1>1, <1>3, <1>4
  <2> QED BY <2>1, <2>2
<1>6. new = app
  BY <1>3, <1>4, <1>5, SeqEqual
<1> QED BY <1>6 DEF old, new, app, g

-----------------------------------------------------------------------------
(* The inductive invariant                                                 *)

LEMMA InitIInv == Init => IInv
<1> SUFFICES ASSUME Init
             PROVE  IInv
  OBVIOUS
<1>1. files \in Seq(Saved) /\ Len(files) = 0
  BY DEF Init
<1> QED BY <1>1 DEF Init, IInv, TypeOK, CountersShape, Shape, Levels

\* set_level to the next level keeps the shape, whatever the condition was.
LEMMA RaiseShape ==
  ASSUME IInv, NEW v \in Int, OpenGroup(v)
  PROVE  /\ Shape(if_level, if_level_active, if_level_satisfied)'
         /\ if_level' \in Levels /\ if_level_active' \in Levels
         /\ if_level_satisfied' \in Levels
         /\ if_level' = open' /\ open' \in Nat
<1>1. /\ Shape(if_level, if_level_active, if_level_satisfied)
      /\ if_level \in Int /\ if_level_active \in Int /\ if_level_satisfied \in Int
      /\ if_level = open /\ open \in Nat /\ MaxLevel \in Nat
  BY DEF IInv, TypeOK, CountersShape, Levels
<1> QED BY <1>1 DEF OpenGroup, set_level, AtMost, Shape, Levels, all_levels_active

\* #elif and #else keep the shape.
LEMMA SwitchShape ==
  ASSUME IInv, Balanced = TRUE, NEW v, SwitchBranch(v)
  PROVE  /\ Shape(if_level, if_level_active, if_level_satisfied)'
         /\ if_level' \in Levels /\ if_level_active' \in Levels
         /\ if_level_satisfied' \in Levels
         /\ if_level' = open' /\ open' \in Nat
<1>1. /\ Shape(if_level, if_level_active, if_level_satisfied)
      /\ if_level \in Levels /\ if_level_active \in Levels
      /\ if_level_satisfied \in Levels
      /\ if_level = open /\ open \in Nat /\ MaxLevel \in Nat
  BY DEF IInv, TypeOK, CountersShape
<1>2. open > 0
  BY DEF SwitchBranch
<1> QED BY <1>1, <1>2
        DEF SwitchBranch, branch_wanted, prev_level_active, all_levels_active,
            Shape, Levels

\* #endif keeps the shape.
LEMMA LowerShape ==
  ASSUME IInv, Balanced = TRUE, Endif
  PROVE  /\ Shape(if_level, if_level_active, if_level_satisfied)'
         /\ if_level' \in Levels /\ if_level_active' \in Levels
         /\ if_level_satisfied' \in Levels
         /\ if_level' = open' /\ open' \in Nat
<1>1. /\ Shape(if_level, if_level_active, if_level_satisfied)
      /\ if_level \in Levels /\ if_level_active \in Levels
      /\ if_level_satisfied \in Levels
      /\ if_level = open /\ open \in Nat /\ MaxLevel \in Nat
  BY DEF IInv, TypeOK, CountersShape
<1>2. open > 0
  BY DEF Endif
<1> QED BY <1>1, <1>2 DEF Endif, set_level, AtMost, Shape, Levels

\* What the lines that leave the groups of all files alone have to show.
LEMMA QuietIInv ==
  ASSUME IInv, UNCHANGED <<counters, files, open>>,
         macros' \in SUBSET Names, lines' \in Nat,
         effect' \in {"none", "grouped", "skipped", "expanded", "emitted",
                      "defined", "undefined", "included", "failed"},
         result' \in {"parse", "ok", "error", "hang"}
  PROVE  IInv'
BY DEF IInv, TypeOK, CountersShape, counters, Shape

\* Dropping the last element of a sequence leaves the others.
LEMMA PopSeq ==
  ASSUME NEW S, NEW q \in Seq(S), Len(q) # 0
  PROVE  LET p == [k \in 1..Len(q)-1 |-> q[k]]
         IN /\ p \in Seq(S)
            /\ Len(p) = Len(q) - 1
            /\ Len(q) \in Nat
            /\ q[Len(q)] \in S
            /\ \A k \in 1..Len(p) : p[k] = q[k]
<1> DEFINE p == [k \in 1..Len(q)-1 |-> q[k]]
<1>1. Len(q) \in Nat /\ Len(q) - 1 \in Nat
  BY LenProperties
<1>2. p \in [1..Len(q)-1 -> S]
  BY <1>1
<1>3. p \in Seq(S) /\ Len(p) = Len(q) - 1
  BY <1>1, <1>2
<1> QED BY <1>1, <1>3

\* #include pushes the counters of the including file and starts afresh.
LEMMA IncludeIInv ==
  ASSUME IInv, Include, lines' \in Nat
  PROVE  IInv'
<1>1. CASE skip_conditional_block
  <2>1. UNCHANGED <<counters, files, open>>
    BY <1>1 DEF Include
  <2> QED BY <2>1, <1>1, QuietIInv DEF Include, IInv, TypeOK
<1>2. CASE ~skip_conditional_block
  <2> DEFINE saved == [level |-> if_level, active |-> if_level_active,
                       satisfied |-> if_level_satisfied, open |-> open]
  <2>1. saved \in Saved /\ files \in Seq(Saved)
    BY DEF IInv, TypeOK, Saved
  <2>2. files' = Append(files, saved)
    BY <1>2 DEF Include
  <2>3. /\ files' \in Seq(Saved) /\ Len(files') = Len(files) + 1
        /\ Len(files) \in Nat
        /\ \A k \in 1..Len(files) : files'[k] = files[k]
        /\ files'[Len(files) + 1] = saved
    BY <2>1, <2>2, AppendProperties, LenProperties
  <2>4. /\ Shape(saved.level, saved.active, saved.satisfied)
        /\ saved.level = saved.open
    BY DEF IInv, CountersShape
  <2> HIDE DEF saved
  <2>5. \A k \in 1..Len(files') :
          /\ Shape(files'[k].level, files'[k].active, files'[k].satisfied)
          /\ files'[k].level = files'[k].open
    <3>1. \A k \in 1..Len(files') : k \in 1..Len(files) \/ k = Len(files) + 1
      BY <2>3
    <3> QED BY <3>1, <2>3, <2>4 DEF IInv, CountersShape
  <2>6. /\ if_level' = 0 /\ if_level_active' = 0 /\ if_level_satisfied' = 0
        /\ open' = 0 /\ effect' = "included"
        /\ UNCHANGED <<macros, result>>
    BY <1>2 DEF Include
  <2>7. TypeOK'
    BY <2>3, <2>6 DEF IInv, TypeOK, Levels
  <2>8. CountersShape'
    BY <2>5, <2>6 DEF CountersShape, Shape
  <2> QED BY <2>7, <2>8 DEF IInv
<1> QED BY <1>1, <1>2

\* The end of an included file brings its includer's counters back.
LEMMA EndOfFileIInv ==
  ASSUME IInv, EndOfFile, lines' \in Nat
  PROVE  IInv'
<1>1. CASE if_level # 0 \/ files = <<>>
  <2>1. /\ UNCHANGED <<counters, files, open, macros>>
        /\ effect' = "none" /\ result' \in {"ok", "error"}
    BY <1>1 DEF EndOfFile
  <2> QED BY <2>1, QuietIInv DEF IInv, TypeOK
<1>2. CASE if_level = 0 /\ files # <<>>
  <2> DEFINE f == files[Len(files)]
  <2>1. files \in Seq(Saved) /\ Len(files) # 0
    BY <1>2 DEF IInv, TypeOK
  <2>2. files' = [k \in 1..Len(files)-1 |-> files[k]]
    BY <1>2 DEF EndOfFile
  <2>3. /\ files' \in Seq(Saved) /\ Len(files') = Len(files) - 1
        /\ Len(files) \in Nat /\ f \in Saved
        /\ \A k \in 1..Len(files') : files'[k] = files[k]
    BY <2>1, <2>2, PopSeq
  <2>4. Len(files) \in 1..Len(files)
    BY <2>1, <2>3
  <2>5. Shape(f.level, f.active, f.satisfied) /\ f.level = f.open
    BY <2>4 DEF IInv, CountersShape
  <2>6. /\ if_level' = f.level /\ if_level_active' = f.active
        /\ if_level_satisfied' = f.satisfied /\ open' = f.open
        /\ effect' = "none" /\ UNCHANGED <<result, macros>>
    BY <1>2 DEF EndOfFile
  <2> HIDE DEF f
  <2>7. TypeOK'
    BY <2>3, <2>6 DEF IInv, TypeOK, Saved
  <2>8. \A k \in 1..Len(files') : k \in 1..Len(files)
    BY <2>3
  <2>9. CountersShape'
    BY <2>3, <2>5, <2>6, <2>8 DEF IInv, CountersShape
  <2> QED BY <2>7, <2>9 DEF IInv
<1> QED BY <1>1, <1>2

\* The lines that open, switch or close a group leave the other files alone.
LEMMA GroupingIInv ==
  ASSUME IInv, NEW l, Grouping(l), lines' \in Nat,
         Shape(if_level, if_level_active, if_level_satisfied)',
         if_level' \in Levels, if_level_active' \in Levels,
         if_level_satisfied' \in Levels, if_level' = open', open' \in Nat
  PROVE  IInv'
BY DEF IInv, TypeOK, CountersShape, Grouping

\* Every line keeps the invariant.
LEMMA StepIInv ==
  ASSUME Balanced = TRUE, IInv, [Next]_vars
  PROVE  IInv'
<1>1. CASE UNCHANGED vars
  BY <1>1 DEF IInv, TypeOK, CountersShape, Shape, vars, counters
<1>2. CASE Next
  <2> USE <1>2
  <2>0. lines' \in Nat /\ result = "parse"
    BY DEF Next, IInv, TypeOK
  <2>1. ASSUME NEW v \in CondValues, If(v)
        PROVE  IInv'
    <3>1. v \in Int /\ Grouping(<<"if", v>>) /\ OpenGroup(v)
      BY <2>1 DEF If
    <3> QED BY <3>1, <2>0, RaiseShape, GroupingIInv
  <2>2. ASSUME NEW n \in Names, Ifdef(n)
        PROVE  IInv'
    <3>1. /\ Grouping(<<"ifdef", n>>) /\ OpenGroup(AsInt(n \in macros))
          /\ AsInt(n \in macros) \in Int
      BY <2>2 DEF Ifdef, AsInt
    <3> QED BY <3>1, <2>0, RaiseShape, GroupingIInv
  <2>3. ASSUME NEW n \in Names, Ifndef(n)
        PROVE  IInv'
    <3>1. /\ Grouping(<<"ifndef", n>>) /\ OpenGroup(AsInt(n \notin macros))
          /\ AsInt(n \notin macros) \in Int
      BY <2>3 DEF Ifndef, AsInt
    <3> QED BY <3>1, <2>0, RaiseShape, GroupingIInv
  <2>4. ASSUME NEW v \in CondValues, Elif(v)
        PROVE  IInv'
    <3>1. Grouping(<<"elif", v>>) /\ SwitchBranch(v)
      BY <2>4 DEF Elif
    <3> QED BY <3>1, <2>0, SwitchShape, GroupingIInv
  <2>5. CASE Else
    <3>1. Grouping(<<"else", 0>>) /\ SwitchBranch(1)
      BY <2>5 DEF Else
    <3> QED BY <3>1, <2>0, SwitchShape, GroupingIInv
  <2>6. CASE Endif
    <3>1. Grouping(<<"endif", 0>>)
      BY <2>6 DEF Endif
    <3> QED BY <3>1, <2>0, <2>6, LowerShape, GroupingIInv
  <2>7. CASE Include
    BY <2>0, <2>7, IncludeIInv
  <2>8. CASE EndOfFile
    BY <2>0, <2>8, EndOfFileIInv
  <2>9. ASSUME NEW n \in Names, Text(n) \/ Define(n) \/ Undef(n)
        PROVE  IInv'
    <3>1. UNCHANGED <<counters, files, open>>
      BY <2>9 DEF Text, Define, Undef
    <3> QED BY <3>1, <2>0, <2>9, QuietIInv DEF Text, Define, Undef, IInv, TypeOK
  <2>10. CASE Pragma \/ Fail \/ BadElif \/ CutOff
    <3>1. UNCHANGED <<counters, files, open>>
      BY <2>10 DEF Pragma, Fail, BadElif, CutOff
    <3> QED BY <3>1, <2>0, <2>10, QuietIInv
            DEF Pragma, Fail, BadElif, CutOff, IInv, TypeOK
  <2> QED BY <2>1, <2>2, <2>3, <2>4, <2>5, <2>6, <2>7, <2>8, <2>9, <2>10 DEF Next
<1> QED BY <1>1, <1>2

\* In a text whose #elif, #else and #endif all stand in an open group the
\* counters of parse_file are 0 <= active <= satisfied <= active + 1 with
\* nothing above the level, the level is the number of groups really open, and
\* the suspended files keep theirs (preproc.c, set_level and cases 5 to 10).
THEOREM CountersSound ==
  ASSUME Balanced = TRUE
  PROVE  Spec => [](TypeOK /\ CountersShape)
<1>1. IInv /\ [Next]_vars => IInv'
  BY StepIInv
<1> QED BY <1>1, InitIInv, PTL DEF Spec, IInv

\* Where the directives are balanced, a file is only accepted with every group
\* closed: the error at the end of parse_file catches every open #if.
THEOREM BalancedIsReported ==
  ASSUME Balanced = TRUE
  PROVE  Spec => []UnterminatedIsReported
<1>1. Init => IInv /\ UnterminatedIsReported
  BY InitIInv DEF Init, UnterminatedIsReported
<1>2. ASSUME IInv, UnterminatedIsReported, [Next]_vars
      PROVE  UnterminatedIsReported'
  <2>1. CASE UNCHANGED vars
    BY <1>2, <2>1 DEF UnterminatedIsReported, vars
  <2>2. CASE EndOfFile /\ result = "parse"
    BY <1>2, <2>2 DEF EndOfFile, UnterminatedIsReported, IInv, CountersShape
  <2>3. CASE Next /\ ~EndOfFile
    <3>1. result' # "ok"
      BY <2>3 DEF Next, If, Elif, Ifdef, Ifndef, Text, Define, Undef, Else, Endif,
                  Pragma, Include, Fail, BadElif, CutOff, Grouping
    <3> QED BY <3>1 DEF UnterminatedIsReported
  <2> QED BY <1>2, <2>1, <2>2, <2>3 DEF Next
<1>3. IInv /\ [Next]_vars => IInv'
  BY StepIInv
<1> QED BY <1>1, <1>2, <1>3, PTL DEF Spec

-----------------------------------------------------------------------------
(* The counters implement the stack of groups                              *)

\* The facts about the current file's groups that every step uses.
LEMMA StackFacts ==
  ASSUME IInv
  PROVE  /\ StackOf \in Seq(CS!Groups) /\ Len(StackOf) = if_level
         /\ if_level \in Nat /\ if_level_active \in Int /\ if_level_satisfied \in Int
         /\ Shape(if_level, if_level_active, if_level_satisfied)
         /\ (StackOf = <<>>) <=> (if_level = 0)
         /\ if_level > 0 => StackOf[if_level] =
              GroupAt(if_level, if_level_active, if_level_satisfied)
         /\ CS!Compiling <=> all_levels_active
         /\ skip_conditional_block <=> ~all_levels_active
         /\ CS!Seeking <=> branch_wanted
<1>1. /\ if_level \in Nat /\ if_level_active \in Int /\ if_level_satisfied \in Int
      /\ Shape(if_level, if_level_active, if_level_satisfied)
  BY DEF IInv, TypeOK, CountersShape, Levels, Shape
<1>2. /\ StackOf \in Seq(CS!Groups) /\ Len(StackOf) = if_level
      /\ \A k \in 1..if_level : StackOf[k] =
           GroupAt(k, if_level_active, if_level_satisfied)
  BY <1>1, GroupsAreSeq DEF StackOf
<1>3. CS!Compiling <=> all_levels_active
  <2>1. (\A k \in 1..if_level : StackOf[k] = "taken")
          <=> if_level_active = if_level
    BY <1>1, CompilingIsActive DEF StackOf
  <2> QED BY <1>2, <2>1 DEF CS!Compiling, all_levels_active
<1>4. skip_conditional_block <=> ~all_levels_active
  BY <1>1 DEF skip_conditional_block, all_levels_active, Shape
<1>5. (StackOf = <<>>) <=> (if_level = 0)
  BY <1>1, <1>2
<1>6. if_level > 0 => if_level \in 1..if_level
  BY <1>1
<1>7. CS!Seeking <=> branch_wanted
  <2>1. CASE if_level = 0
    BY <2>1, <1>1, <1>5 DEF CS!Seeking, branch_wanted, prev_level_active, Shape
  <2>2. CASE if_level # 0
    <3>1. StackOf[Len(StackOf)] = "seeking"
            <=> /\ ~(if_level <= if_level_active)
                /\ ~(if_level > if_level_active + 1)
                /\ ~(if_level <= if_level_satisfied)
      BY <2>2, <1>1, <1>2, <1>6 DEF GroupAt
    <3>2. branch_wanted
            <=> /\ ~(if_level <= if_level_active)
                /\ ~(if_level > if_level_active + 1)
                /\ ~(if_level <= if_level_satisfied)
      BY <1>1 DEF branch_wanted, prev_level_active
    <3> QED BY <2>2, <1>5, <3>1, <3>2 DEF CS!Seeking
  <2> QED BY <2>1, <2>2
<1> QED BY <1>1, <1>2, <1>3, <1>4, <1>5, <1>6, <1>7

\* Opening a group pushes the group the condition gives it.
LEMMA OpenRefines ==
  ASSUME IInv, NEW v \in Int, OpenGroup(v)
  PROVE  CS!Open(v \notin {0, -1})
<1>1. /\ if_level \in Nat /\ if_level_active \in Int /\ if_level_satisfied \in Int
      /\ Shape(if_level, if_level_active, if_level_satisfied)
      /\ CS!Compiling <=> all_levels_active
  BY StackFacts
<1>2. /\ if_level' = if_level + 1
      /\ if_level_active' \in Int /\ if_level_satisfied' \in Int
  BY <1>1 DEF OpenGroup, set_level, AtMost
<1>3. \A k \in 1..if_level :
        GroupAt(k, if_level_active', if_level_satisfied')
          = GroupAt(k, if_level_active, if_level_satisfied)
  BY <1>1 DEF OpenGroup, set_level, AtMost, all_levels_active, Shape, GroupAt
<1>4. GroupAt(if_level + 1, if_level_active', if_level_satisfied')
        = IF ~all_levels_active THEN "dead"
          ELSE IF v \notin {0, -1} THEN "taken" ELSE "seeking"
  BY <1>1 DEF OpenGroup, set_level, AtMost, all_levels_active, Shape, GroupAt
<1>5. StackOf' = Append(StackOf, GroupAt(if_level + 1, if_level_active', if_level_satisfied'))
  BY <1>1, <1>2, <1>3, RaiseAppends DEF StackOf
<1> QED BY <1>1, <1>4, <1>5 DEF CS!Open

\* #elif and #else change the innermost group as CondStack does.
LEMMA SwitchRefines ==
  ASSUME IInv, Balanced = TRUE, NEW v, SwitchBranch(v)
  PROVE  StackOf # <<>> /\ CS!Switch(v # 0)
<1>1. /\ if_level \in Nat /\ if_level_active \in Int /\ if_level_satisfied \in Int
      /\ Shape(if_level, if_level_active, if_level_satisfied)
      /\ StackOf \in Seq(CS!Groups) /\ Len(StackOf) = if_level
      /\ (StackOf = <<>>) <=> (if_level = 0)
  BY StackFacts
<1>2. if_level > 0
  BY DEF SwitchBranch, IInv, CountersShape
<1>3. /\ if_level' = if_level
      /\ if_level_active' \in Int /\ if_level_satisfied' \in Int
  BY <1>1 DEF SwitchBranch
<1> DEFINE top == StackOf[Len(StackOf)]
           g == IF top = "taken" THEN "done"
                ELSE IF top = "seeking" /\ v # 0 THEN "taken" ELSE top
           new == [StackOf EXCEPT ![Len(StackOf)] = g]
<1>4. /\ DOMAIN StackOf = 1..if_level
      /\ \A k \in 1..if_level : StackOf[k] =
           GroupAt(k, if_level_active, if_level_satisfied)
  BY <1>1, GroupsAreSeq DEF StackOf
<1>5. /\ DOMAIN StackOf' = 1..if_level
      /\ \A k \in 1..if_level : StackOf'[k] =
           GroupAt(k, if_level_active', if_level_satisfied')
  BY <1>1, <1>3, GroupsAreSeq DEF StackOf
<1>6. /\ DOMAIN new = 1..if_level
      /\ \A k \in 1..if_level : new[k] = IF k = if_level THEN g ELSE StackOf[k]
  BY <1>1, <1>4
<1>7. if_level \in 1..if_level
  BY <1>1, <1>2
<1>8. ASSUME NEW k \in 1..if_level
      PROVE  StackOf'[k] = new[k]
  <2>1. CASE k = if_level
    <3>1. new[k] = g /\ top = StackOf[k]
      BY <2>1, <1>1, <1>6
    <3>2. StackOf'[k] = g
      <4>1. top = GroupAt(k, if_level_active, if_level_satisfied)
        BY <3>1, <1>4
      <4>2. StackOf'[k] = GroupAt(k, if_level_active', if_level_satisfied')
        BY <1>5
      <4> HIDE DEF top
      <4> QED BY <4>1, <4>2, <2>1, <1>1
              DEF SwitchBranch, branch_wanted, prev_level_active,
                  all_levels_active, Shape, GroupAt
    <3> QED BY <3>1, <3>2
  <2>2. CASE k # if_level
    <3>1. new[k] = StackOf[k]
      BY <2>2, <1>6
    <3>2. StackOf'[k] = StackOf[k]
      BY <2>2, <1>1, <1>4, <1>5
         DEF SwitchBranch, branch_wanted, prev_level_active,
             all_levels_active, Shape, GroupAt
    <3> QED BY <3>1, <3>2
  <2> QED BY <2>1, <2>2
<1>9. StackOf' = new
  <2>1. StackOf[Len(StackOf)] \in CS!Groups
    BY <1>1, <1>7
  <2>2. g \in CS!Groups
    BY <2>1 DEF CS!Groups
  <2>3. new \in Seq(CS!Groups) /\ Len(new) = if_level
    BY <2>2, <1>1, <1>7, ExceptSeq
  <2>4. StackOf' \in Seq(CS!Groups) /\ Len(StackOf') = if_level
    BY <1>1, <1>3, GroupsAreSeq DEF StackOf
  <2> HIDE DEF new
  <2> QED BY <2>3, <2>4, <1>8, SeqEqual
<1> QED BY <1>1, <1>2, <1>9 DEF CS!Switch

\* #endif drops the innermost group.
LEMMA EndifRefines ==
  ASSUME IInv, Balanced = TRUE, Endif
  PROVE  CS!Endif
<1>1. /\ if_level \in Nat /\ if_level_active \in Int /\ if_level_satisfied \in Int
      /\ Shape(if_level, if_level_active, if_level_satisfied)
      /\ StackOf \in Seq(CS!Groups) /\ Len(StackOf) = if_level
      /\ (StackOf = <<>>) <=> (if_level = 0)
  BY StackFacts
<1>2. if_level > 0
  BY DEF Endif, IInv, CountersShape
<1>3. /\ if_level' = if_level - 1
      /\ \A k \in 1..(if_level - 1) :
           GroupAt(k, if_level_active', if_level_satisfied')
             = GroupAt(k, if_level_active, if_level_satisfied)
  BY <1>1, <1>2 DEF Endif, set_level, AtMost, Shape, GroupAt
<1>4. \A k \in 1..(if_level - 1) :
        StackOf[k] = GroupAt(k, if_level_active, if_level_satisfied)
  <2>1. \A k \in 1..if_level :
          StackOf[k] = GroupAt(k, if_level_active, if_level_satisfied)
    BY <1>1, GroupsAreSeq DEF StackOf
  <2> QED BY <1>1, <2>1
<1>5. StackOf' = [k \in 1..Len(StackOf)-1 |-> StackOf[k]]
  <2>1. StackOf' = [k \in 1..(if_level - 1) |->
                      GroupAt(k, if_level_active', if_level_satisfied')]
    BY <1>3 DEF StackOf, GroupsOf
  <2> QED BY <1>1, <1>3, <1>4, <2>1
<1>6. CS!Grouping(<<"endif", 0>>)
  BY DEF Endif, Grouping, Read, CS!Grouping, OuterOf
<1> QED BY <1>1, <1>2, <1>5, <1>6 DEF CS!Endif

\* #include suspends the groups of the including file.
LEMMA IncludeRefines ==
  ASSUME IInv, Include
  PROVE  CS!Include
<1>1. /\ CS!Compiling <=> all_levels_active
      /\ skip_conditional_block <=> ~all_levels_active
  BY StackFacts
<1>2. CASE skip_conditional_block
  BY <1>1, <1>2 DEF Include, Read, CS!Include, StackOf, OuterOf, counters
<1>3. CASE ~skip_conditional_block
  <2> DEFINE saved == [level |-> if_level, active |-> if_level_active,
                       satisfied |-> if_level_satisfied, open |-> open]
             Groups(f) == GroupsOf(f.level, f.active, f.satisfied)
  <2>1. /\ files \in Seq(Saved) /\ saved \in Saved
        /\ files' = Append(files, saved)
    BY <1>3 DEF Include, IInv, TypeOK, Saved
  <2>2. /\ Len(files) \in Nat /\ Len(files') = Len(files) + 1
        /\ \A k \in 1..Len(files) : files'[k] = files[k]
        /\ files'[Len(files) + 1] = saved
    BY <2>1, AppendProperties, LenProperties
  <2>3. Groups(saved) = StackOf
    BY DEF StackOf
  <2> DEFINE Any == {Groups(files'[k]) : k \in 1..Len(files')}
  <2>4. /\ OuterOf = [k \in 1..Len(files) |-> Groups(files[k])]
        /\ OuterOf' = [k \in 1..Len(files') |-> Groups(files'[k])]
    BY DEF OuterOf
  <2> HIDE DEF saved, Groups
  <2>5. /\ OuterOf \in Seq(Any) /\ Len(OuterOf) = Len(files)
        /\ OuterOf' \in Seq(Any) /\ Len(OuterOf') = Len(files) + 1
        /\ StackOf \in Any
    <3>1. \A k \in 1..Len(files) : Groups(files[k]) \in Any
      BY <2>2
    <3>2. OuterOf \in [1..Len(files) -> Any]
      BY <2>4, <3>1
    <3>3. OuterOf' \in [1..Len(files') -> Any]
      BY <2>4
    <3>4. Len(files) + 1 \in 1..Len(files')
      BY <2>2
    <3>5. StackOf \in Any
      BY <2>2, <2>3, <3>4
    <3> HIDE DEF Any
    <3>6. OuterOf \in Seq(Any) /\ Len(OuterOf) = Len(files)
      BY <2>2, <3>2
    <3>7. OuterOf' \in Seq(Any) /\ Len(OuterOf') = Len(files) + 1
      BY <2>2, <3>3
    <3> QED BY <3>5, <3>6, <3>7
  <2> HIDE DEF Any
  <2>6. OuterOf' = Append(OuterOf, StackOf)
    <3> DEFINE app == Append(OuterOf, StackOf)
    <3>1. /\ app \in Seq(Any) /\ Len(app) = Len(files) + 1
          /\ \A k \in 1..Len(files) : app[k] = OuterOf[k]
          /\ app[Len(files) + 1] = StackOf
      BY <2>5, AppendProperties
    <3> HIDE DEF app
    <3>2. ASSUME NEW k \in 1..(Len(files) + 1)
          PROVE  OuterOf'[k] = app[k]
      <4>1. CASE k = Len(files) + 1
        <5>1. OuterOf'[k] = Groups(files'[k])
          BY <2>2, <2>4
        <5> QED BY <4>1, <5>1, <2>2, <2>3, <3>1
      <4>2. CASE k # Len(files) + 1
        <5>1. k \in 1..Len(files)
          BY <4>2, <2>2
        <5>2. OuterOf'[k] = Groups(files'[k]) /\ OuterOf[k] = Groups(files[k])
          BY <5>1, <2>2, <2>4
        <5> QED BY <5>1, <5>2, <2>2, <3>1
      <4> QED BY <4>1, <4>2
    <3>3. OuterOf' = app
      BY <2>5, <3>1, <3>2, SeqEqual
    <3> QED BY <3>3 DEF app
  <2>7. StackOf' = <<>>
    <3>1. if_level' = 0
      BY <1>3 DEF Include
    <3>2. DOMAIN StackOf' = {}
      BY <3>1 DEF StackOf, GroupsOf
    <3>3. StackOf' \in Seq({}) /\ Len(StackOf') = 0
      BY <3>1, <3>2 DEF StackOf, GroupsOf
    <3> QED BY <3>3
  <2> QED BY <1>1, <1>3, <2>6, <2>7 DEF Include, Read, CS!Include
<1> QED BY <1>2, <1>3

\* The end of a file resumes the groups of the file that included it.
LEMMA EndOfFileRefines ==
  ASSUME IInv, EndOfFile
  PROVE  CS!EndOfFile
<1>1. /\ (StackOf = <<>>) <=> (if_level = 0)
      /\ files \in Seq(Saved)
  BY StackFacts DEF IInv, TypeOK
<1>2. Len(OuterOf) = Len(files) /\ ((OuterOf = <<>>) <=> (files = <<>>))
  <2>1. Len(files) \in Nat /\ ((files = <<>>) <=> (Len(files) = 0))
    BY <1>1
  <2>2. OuterOf \in Seq({OuterOf[k] : k \in 1..Len(files)}) /\ Len(OuterOf) = Len(files)
    <3>1. OuterOf \in [1..Len(files) -> {OuterOf[k] : k \in 1..Len(files)}]
      BY DEF OuterOf
    <3> QED BY <2>1, <3>1
  <2> QED BY <2>1, <2>2
<1>3. CASE if_level # 0 \/ files = <<>>
  <2>1. UNCHANGED <<StackOf, OuterOf>>
    BY <1>3 DEF EndOfFile, StackOf, OuterOf, counters
  <2> QED BY <1>1, <1>2, <1>3, <2>1 DEF EndOfFile, Read, CS!EndOfFile
<1>4. CASE if_level = 0 /\ files # <<>>
  <2> DEFINE f == files[Len(files)]
             Groups(x) == GroupsOf(x.level, x.active, x.satisfied)
  <2>1. /\ Len(files) \in Nat /\ Len(files') = Len(files) - 1
        /\ \A k \in 1..Len(files') : files'[k] = files[k]
        /\ Len(files) # 0
    <3>1. Len(files) # 0
      BY <1>1, <1>4
    <3>2. files' = [k \in 1..Len(files)-1 |-> files[k]]
      BY <1>4 DEF EndOfFile
    <3> QED BY <1>1, <3>1, <3>2, PopSeq
  <2>2. /\ OuterOf = [k \in 1..Len(files) |-> Groups(files[k])]
        /\ OuterOf' = [k \in 1..Len(files') |-> Groups(files'[k])]
    BY DEF OuterOf
  <2>3. StackOf' = Groups(f)
    BY <1>4 DEF EndOfFile, StackOf
  <2> HIDE DEF Groups
  <2>4. Len(files) \in 1..Len(files)
    BY <2>1
  <2>5. StackOf' = OuterOf[Len(OuterOf)]
    BY <1>2, <2>2, <2>3, <2>4
  <2>6. \A k \in 1..Len(files)-1 : k \in 1..Len(files) /\ files'[k] = files[k]
    BY <2>1
  <2>7. OuterOf' = [k \in 1..Len(OuterOf)-1 |-> OuterOf[k]]
    <3>1. OuterOf' = [k \in 1..Len(files)-1 |-> Groups(files[k])]
      BY <2>1, <2>2, <2>6
    <3>2. \A k \in 1..Len(files)-1 : OuterOf[k] = Groups(files[k])
      BY <2>2, <2>6
    <3> QED BY <1>2, <3>1, <3>2
  <2> QED BY <1>1, <1>2, <1>4, <2>5, <2>7 DEF EndOfFile, Read, CS!EndOfFile
<1> QED BY <1>3, <1>4

\* Every line does to the groups what CondStack says.
LEMMA StepRefines ==
  ASSUME Balanced = TRUE, IInv, [Next]_vars
  PROVE  [CS!Next]_CS!vars
<1>1. CASE UNCHANGED vars
  BY <1>1 DEF vars, counters, CS!vars, StackOf, OuterOf
<1>2. CASE Next
  <2> USE <1>2
  <2>0. result = "parse" /\ (CS!Compiling <=> ~skip_conditional_block)
        /\ (CS!Seeking <=> branch_wanted) /\ (CS!Compiling <=> all_levels_active)
    BY StackFacts DEF Next
  <2>1. ASSUME NEW l, Grouping(l)
        PROVE  CS!Grouping(l)
    BY <2>1 DEF Grouping, Read, CS!Grouping, OuterOf
  <2>2. ASSUME NEW v \in CondValues, If(v) \/ Elif(v)
        PROVE  CS!If(v) \/ CS!Elif(v)
    <3>1. CASE If(v)
      <4>1. v \in Int /\ Grouping(<<"if", v>>) /\ OpenGroup(v)
        BY <3>1 DEF If
      <4> QED BY <4>1, <2>1, OpenRefines DEF CS!If
    <3>2. CASE Elif(v)
      <4>1. Grouping(<<"elif", v>>) /\ SwitchBranch(v)
        BY <3>2 DEF Elif
      <4> QED BY <4>1, <2>1, SwitchRefines DEF CS!Elif
    <3> QED BY <2>2, <3>1, <3>2
  <2>3. ASSUME NEW n \in Names, Ifdef(n)
        PROVE  CS!Ifdef(n)
    <3>1. Grouping(<<"ifdef", n>>) /\ OpenGroup(AsInt(n \in macros))
      BY <2>3 DEF Ifdef
    <3>2. /\ AsInt(n \in macros) \in Int
          /\ (AsInt(n \in macros) \notin {0, -1}) = (n \in macros)
      BY DEF AsInt
    <3> QED BY <3>1, <3>2, <2>1, OpenRefines DEF CS!Ifdef
  <2>4. ASSUME NEW n \in Names, Ifndef(n)
        PROVE  CS!Ifndef(n)
    <3>1. Grouping(<<"ifndef", n>>) /\ OpenGroup(AsInt(n \notin macros))
      BY <2>4 DEF Ifndef
    <3>2. /\ AsInt(n \notin macros) \in Int
          /\ (AsInt(n \notin macros) \notin {0, -1}) = (n \notin macros)
      BY DEF AsInt
    <3> QED BY <3>1, <3>2, <2>1, OpenRefines DEF CS!Ifndef
  <2>5. ASSUME NEW n \in Names, Text(n) \/ Define(n) \/ Undef(n)
        PROVE  CS!Text(n) \/ CS!Define(n) \/ CS!Undef(n)
    <3>1. UNCHANGED <<StackOf, OuterOf>>
      BY <2>5 DEF Text, Define, Undef, counters, StackOf, OuterOf
    <3> QED BY <2>0, <2>5, <3>1
            DEF Text, Define, Undef, Read, CS!Text, CS!Define, CS!Undef
  <2>6. ASSUME Else
        PROVE  CS!Else
    <3>1. Grouping(<<"else", 0>>) /\ SwitchBranch(1)
      BY <2>6 DEF Else
    <3>2. StackOf # <<>> /\ CS!Switch(TRUE)
      <4>1. StackOf # <<>> /\ CS!Switch(1 # 0)
        BY <3>1, SwitchRefines
      <4>2. (1 # 0) = TRUE
        OBVIOUS
      <4> QED BY <4>1, <4>2
    <3> QED BY <3>1, <3>2, <2>1 DEF CS!Else
  <2>7. CASE Pragma \/ Fail \/ BadElif \/ CutOff
    <3>1. UNCHANGED <<StackOf, OuterOf>>
      BY <2>7 DEF Pragma, Fail, BadElif, CutOff, counters, StackOf, OuterOf
    <3>2. CS!Pragma \/ CS!Fail \/ CS!BadElif \/ CS!CutOff
      BY <2>0, <2>7, <3>1
         DEF Pragma, Fail, BadElif, CutOff, Read,
             CS!Pragma, CS!Fail, CS!BadElif, CS!CutOff
    <3> QED BY <2>0, <3>2 DEF CS!Next
  <2>8. Endif => CS!Endif
    BY EndifRefines
  <2>9. Include => CS!Include
    BY IncludeRefines
  <2>10. EndOfFile => CS!EndOfFile
    BY EndOfFileRefines
  <2> QED BY <2>0, <2>2, <2>3, <2>4, <2>5, <2>6, <2>7, <2>8, <2>9, <2>10
          DEF Next, CS!Next
<1> QED BY <1>1, <1>2

\* In a balanced text the three counters of parse_file have the effect of a
\* stack of groups: every line of every nesting of conditionals and includes is
\* compiled or skipped as the groups around it say.
THEOREM CountersImplementGroups ==
  ASSUME Balanced = TRUE
  PROVE  Spec => ImplementsCondStack
<1>1. Init => CS!Init
  <2> SUFFICES ASSUME Init
               PROVE  CS!Init
    OBVIOUS
  <2>1. StackOf = <<>>
    BY InitIInv, StackFacts DEF Init
  <2>2. OuterOf = <<>>
    <3>1. files \in Seq({}) /\ Len(files) = 0
      BY DEF Init
    <3>2. OuterOf \in [1..0 -> {}]
      BY <3>1 DEF OuterOf
    <3>3. OuterOf \in Seq({}) /\ Len(OuterOf) = 0
      BY <3>2
    <3> QED BY <3>3
  <2> QED BY <2>1, <2>2 DEF Init, CS!Init
<1>2. IInv /\ [Next]_vars => IInv'
  BY StepIInv
<1>3. IInv /\ [Next]_vars => [CS!Next]_CS!vars
  BY StepRefines
<1> QED BY <1>1, <1>2, <1>3, InitIInv, PTL DEF Spec, ImplementsCondStack, CS!Spec
=============================================================================
