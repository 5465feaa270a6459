--------------------------- MODULE BuildAllProofs ---------------------------
(***************************************************************************)
(* Proofs about BuildAll, for every order of the configurations, every set *)
(* of flags and every number of runs.                                      *)
(***************************************************************************)
EXTENDS BuildAll, SequenceTheorems, TLAPS

AbseilStage   == {"abseil", "absl_configure", "absl_build", "absl_install"}
ProtoBufStage == {"protobuf", "configure", "build"}
CopyStage     == {"copy_lib", "copy_headers", "complete"}

AbseilBuilds == [arch : {"x64", "Win32"}, config : ConfigSet, type : {"ABSEIL"}]
CopyTasks    == {Copy("Copy_Bin_Files"), Copy("Copy_Lib_Files"), Copy("Copy_Header_Files")}
Tasks        == Builds \cup AbseilBuilds \cup CopyTasks

Injective(s) == \A i, j \in 1 .. Len(s) : s[i] = s[j] => i = j

-----------------------------------------------------------------------------
(* The inductive invariant.                                                *)

\* The flags stay what they are called.
SettingsInv == DOMAIN settings = FlagNames

\* Which tasks a stage has left, and that a task under way is the first of them.
TodoInv ==
  /\ pc \in AbseilStage => todo \in Seq(AbseilBuilds)
  /\ pc \in ProtoBufStage => todo \in Seq(Builds) /\ Injective(todo)
  /\ pc \notin AbseilStage \cup ProtoBufStage => todo = <<>>
  /\ pc \in (AbseilStage \cup ProtoBufStage) \ {"abseil", "protobuf"} => todo # <<>>
  /\ pc # "idle" => run > 0

\* What is logged is finished: no protobuf task is both logged and still to do.
LogInv ==
  /\ log \in Seq([task : Tasks, result : {"PASSED", "FAILED"}])
  /\ pc \in AbseilStage => \A i \in 1 .. Len(log) : log[i].task \in AbseilBuilds
  /\ pc \in ProtoBufStage =>
       \A i \in 1 .. Len(log) : \A j \in 1 .. Len(todo) : log[i].task # todo[j]

\* PassedIsBuilt, without the detour over the set of results.
BuiltInv ==
  \A i \in 1 .. Len(log) :
    (log[i].task \in Builds /\ log[i].result = "PASSED") =>
      builds[log[i].task] = [library |-> run, exe |-> run]

DllPassed(p) ==
  \E i \in 1 .. Len(log) :
    log[i].task = ProtoBuf(p[1], p[2], "DLL") /\ log[i].result = "PASSED"

\* What the copy steps have done so far for the DLL builds that passed.
CopyInv ==
  \A p \in Places : DllPassed(p) =>
    /\ (pc \in CopyStage /\ <<"bin", p>> \notin lost) =>
         bin[p].exe = File("DLL", run) /\ bin[p].dll = File("DLL", run)
    /\ (pc \in CopyStage \ {"copy_lib"} /\ <<"lib", p>> \notin lost) =>
         lib[p].libprotobuf = File("DLL", run)

\* The tasks that still get a line in the log, in order.
Logged == [i \in 1 .. Len(log) |-> log[i].task]
Left ==
  CASE pc \in AbseilStage   -> todo
    [] pc \in ProtoBufStage -> todo \o Copies
    [] pc = "copy_lib"      -> <<Copy("Copy_Lib_Files"), Copy("Copy_Header_Files")>>
    [] pc = "copy_headers"  -> <<Copy("Copy_Header_Files")>>
    [] OTHER                -> <<>>

\* Lines written and lines to come make up the order the script promises.
OrderInv ==
  LET arch   == settings.BUILD_ARCHITECTURE
      wanted == ProtoBufTasks(arch) \o Copies IN
  /\ pc \in AbseilStage => Logged \o Left \in {<<>>, AbseilTasks(arch)}
  /\ pc \in ProtoBufStage \cup CopyStage =>
       Logged \o Left \in {wanted, AbseilTasks(arch) \o wanted}

IndInv ==
  TypeOK /\ SettingsInv /\ TodoInv /\ LogInv /\ BuiltInv /\ CopyInv /\ OrderInv

-----------------------------------------------------------------------------
(* Sequences.                                                              *)

\* A flattened sequence of one or two sequences is their concatenation.
LEMMA FlattenOne ==
  ASSUME NEW S, NEW a \in Seq(S)
  PROVE  FlattenSeq(<<a>>) = a
<1> DEFINE P(f) == f = [i \in 1 .. Len(<<a>>) |->
                          IF i = 1 THEN <<a>>[i] ELSE f[i-1] \o <<a>>[i]]
<1>1. P([i \in 1 .. 1 |-> a])
  OBVIOUS
<1>2. P(CHOOSE f : P(f))
  <2> HIDE DEF P
  <2> QED BY <1>1
<1>3. (CHOOSE f : P(f))[1] = a
  BY <1>2
<1> QED BY <1>3 DEF FlattenSeq

LEMMA FlattenTwo ==
  ASSUME NEW S, NEW a \in Seq(S), NEW b \in Seq(S)
  PROVE  FlattenSeq(<<a, b>>) = a \o b
<1> DEFINE P(f) == f = [i \in 1 .. Len(<<a, b>>) |->
                          IF i = 1 THEN <<a, b>>[i] ELSE f[i-1] \o <<a, b>>[i]]
           g == CHOOSE f : P(f)
<1>0. Len(<<a, b>>) = 2 /\ <<a, b>>[1] = a /\ <<a, b>>[2] = b
  OBVIOUS
<1>1. P([i \in 1 .. 2 |-> IF i = 1 THEN a ELSE a \o b])
  OBVIOUS
<1>2. P(g)
  <2> HIDE DEF P
  <2> QED BY <1>1
<1>3. g[1] = a /\ g[2] = g[1] \o b
  <2> HIDE DEF g
  <2>1. g = [i \in 1 .. 2 |-> IF i = 1 THEN <<a, b>>[i] ELSE g[i-1] \o <<a, b>>[i]]
    BY <1>2, <1>0
  <2>2. g[1] = a
    BY <2>1, <1>0
  <2> DEFINE e(i) == IF i = 1 THEN <<a, b>>[i] ELSE g[i-1] \o <<a, b>>[i]
  <2>3. g = [i \in 1 .. 2 |-> e(i)]
    BY <2>1
  <2>4. g[2] = e(2)
    <3> HIDE DEF e
    <3> QED BY <2>3
  <2>5. 2 - 1 = 1 /\ 2 # 1
    OBVIOUS
  <2>6. e(2) = g[2-1] \o <<a, b>>[2]
    BY <2>5, Zenon
  <2> QED BY <2>2, <2>4, <2>5, <2>6, <1>0, Zenon
<1>4. FlattenSeq(<<a, b>>) = g[2]
  BY <1>0 DEF FlattenSeq
<1> QED BY <1>3, <1>4

\* Logging the first task that is left keeps the whole.
LEMMA MoveHead ==
  ASSUME NEW S, NEW s \in Seq(S), NEW t \in Seq(S), t # <<>>
  PROVE  Append(s, Head(t)) \o Tail(t) = s \o t
<1>1. Head(t) \in S /\ Tail(t) \in Seq(S) /\ Append(s, Head(t)) \in Seq(S)
  OBVIOUS
<1>2. Len(Append(s, Head(t)) \o Tail(t)) = Len(s \o t)
  BY <1>1
<1>3. ASSUME NEW i \in 1 .. Len(s \o t)
      PROVE  (Append(s, Head(t)) \o Tail(t))[i] = (s \o t)[i]
  <2>1. CASE i <= Len(s)
    BY <1>1, <2>1
  <2>2. CASE i = Len(s) + 1
    BY <1>1, <2>2
  <2>3. CASE i > Len(s) + 1
    <3>1. (Append(s, Head(t)) \o Tail(t))[i] = Tail(t)[i - (Len(s) + 1)]
      BY <1>1, <2>3
    <3>2. Tail(t)[i - (Len(s) + 1)] = t[i - Len(s)]
      BY <1>1, <2>3
    <3> QED BY <3>1, <3>2, <2>3
  <2>4. i \in Nat /\ Len(s) \in Nat
    BY <1>1
  <2> QED BY <2>1, <2>2, <2>3, <2>4
<1>4. Append(s, Head(t)) \o Tail(t) \in Seq(S) /\ s \o t \in Seq(S)
  BY <1>1
<1> QED BY <1>2, <1>3, <1>4, SeqEqual

LEMMA MoveHeadBefore ==
  ASSUME NEW S, NEW s \in Seq(S), NEW t \in Seq(S), t # <<>>, NEW u \in Seq(S)
  PROVE  Append(s, Head(t)) \o (Tail(t) \o u) = s \o (t \o u)
<1>1. Head(t) \in S /\ Tail(t) \in Seq(S) /\ Append(s, Head(t)) \in Seq(S)
  OBVIOUS
<1>2. Append(s, Head(t)) \o (Tail(t) \o u) = (Append(s, Head(t)) \o Tail(t)) \o u
  <2>1. ASSUME NEW x \in Seq(S), NEW y \in Seq(S)
        PROVE  (x \o y) \o u = x \o (y \o u)
    BY ConcatAssociative
  <2> QED BY <2>1, <1>1, Zenon
<1>3. (s \o t) \o u = s \o (t \o u)
  BY ConcatAssociative
<1> QED BY <1>2, <1>3, MoveHead

LEMMA ConcatInjective ==
  ASSUME NEW S, NEW s \in Seq(S), NEW t \in Seq(S), Injective(s), Injective(t),
         \A i \in 1 .. Len(s) : \A j \in 1 .. Len(t) : s[i] # t[j]
  PROVE  Injective(s \o t)
<1> SUFFICES ASSUME NEW i \in 1 .. Len(s \o t), NEW j \in 1 .. Len(s \o t),
                    (s \o t)[i] = (s \o t)[j]
             PROVE  i = j
  BY DEF Injective
<1>1. Len(s \o t) = Len(s) + Len(t) /\ Len(s) \in Nat /\ Len(t) \in Nat
  OBVIOUS
<1>2. CASE i <= Len(s) /\ j <= Len(s)
  BY <1>1, <1>2 DEF Injective
<1>3. CASE i > Len(s) /\ j > Len(s)
  <2>1. /\ (s \o t)[i] = t[i - Len(s)] /\ (s \o t)[j] = t[j - Len(s)]
        /\ i - Len(s) \in 1 .. Len(t) /\ j - Len(s) \in 1 .. Len(t)
    BY <1>1, <1>3
  <2>2. i - Len(s) = j - Len(s)
    BY <2>1 DEF Injective
  <2> QED BY <2>2, <1>1, <1>3
<1>4. CASE i <= Len(s) /\ j > Len(s)
  <2>1. (s \o t)[i] = s[i] /\ (s \o t)[j] = t[j - Len(s)] /\ j - Len(s) \in 1 .. Len(t)
    BY <1>1, <1>4
  <2>2. i \in 1 .. Len(s)
    BY <1>4
  <2> QED BY <2>2, <2>1
<1>5. CASE i > Len(s) /\ j <= Len(s)
  <2>1. (s \o t)[j] = s[j] /\ (s \o t)[i] = t[i - Len(s)] /\ i - Len(s) \in 1 .. Len(t)
    BY <1>1, <1>5
  <2>2. j \in 1 .. Len(s)
    BY <1>5
  <2> QED BY <2>2, <2>1
<1> QED BY <1>1, <1>2, <1>3, <1>4, <1>5

-----------------------------------------------------------------------------
(* The task lists.                                                         *)

LEMMA ConfigsShape ==
  \E c, d \in ConfigSet : Configs = <<c>> \/ (Configs = <<c, d>> /\ c # d)
<1>1. /\ Configs \in Seq({"Release", "Debug"})
      /\ \A i, j \in DOMAIN Configs : Configs[i] = Configs[j] => i = j
      /\ \E i \in DOMAIN Configs : Configs[i] = "Release"
  BY ConfigsAssumption DEF ToSet
<1>2. DOMAIN Configs = 1 .. Len(Configs) /\ Len(Configs) \in Nat
  BY <1>1
<1>3. Len(Configs) \in {1, 2}
  <2>1. Len(Configs) # 0
    BY <1>1, <1>2
  <2>2. ~ Len(Configs) >= 3
    <3> SUFFICES ASSUME Len(Configs) >= 3 PROVE FALSE
      OBVIOUS
    <3>1. /\ Configs[1] \in {"Release", "Debug"}
          /\ Configs[2] \in {"Release", "Debug"}
          /\ Configs[3] \in {"Release", "Debug"}
      BY <1>1, <1>2
    <3>2. 1 \in DOMAIN Configs /\ 2 \in DOMAIN Configs /\ 3 \in DOMAIN Configs
      BY <1>2
    <3>3. Configs[1] # Configs[2] /\ Configs[1] # Configs[3] /\ Configs[2] # Configs[3]
      BY <3>2, <1>1
    <3> QED BY <3>1, <3>3
  <2> QED BY <2>1, <2>2, <1>2
<1>4. CASE Len(Configs) = 1
  <2>1. Configs = <<Configs[1]>> /\ Configs[1] \in ConfigSet
    BY <1>1, <1>2, <1>4 DEF ConfigSet, ToSet
  <2> QED BY <2>1, Zenon
<1>5. CASE Len(Configs) = 2
  <2>1. /\ Configs = <<Configs[1], Configs[2]>>
        /\ Configs[1] \in ConfigSet /\ Configs[2] \in ConfigSet
    BY <1>1, <1>2, <1>5 DEF ConfigSet, ToSet
  <2>2. Configs[1] # Configs[2]
    BY <1>1, <1>2, <1>5
  <2> QED BY <2>1, <2>2
<1> QED BY <1>3, <1>4, <1>5

LEMMA SelectedShape ==
  ASSUME NEW x
  PROVE  Selected(x) \in {<<>>, <<"x64">>, <<"Win32">>, <<"x64", "Win32">>}
BY DEF Selected

(* The tasks of one architecture. *)
AbseilOf(arch)   == [c \in DOMAIN Configs |-> Abseil(arch, Configs[c])]
ProtoBufOf(arch) ==
  FlattenSeq([c \in DOMAIN Configs |->
    <<ProtoBuf(arch, Configs[c], "LIB"), ProtoBuf(arch, Configs[c], "DLL")>>])

LEMMA AbseilOfType ==
  ASSUME NEW arch \in {"x64", "Win32"}
  PROVE  AbseilOf(arch) \in Seq(AbseilBuilds)
<1>1. Configs \in Seq(ConfigSet)
  BY ConfigsAssumption DEF ConfigSet, ToSet
<1>2. \A c \in ConfigSet : Abseil(arch, c) \in AbseilBuilds
  BY DEF AbseilBuilds, Abseil, ProtoBuf
<1>3. \A i \in 1 .. Len(Configs) : Configs[i] \in ConfigSet
  BY <1>1
<1>4. DOMAIN Configs = 1 .. Len(Configs) /\ Len(Configs) \in Nat
  BY <1>1
<1> HIDE DEF AbseilBuilds, Abseil
<1> QED BY <1>2, <1>3, <1>4 DEF AbseilOf

LEMMA ProtoBufOfShape ==
  ASSUME NEW arch \in {"x64", "Win32"}
  PROVE  /\ ProtoBufOf(arch) \in Seq(Builds)
         /\ Injective(ProtoBufOf(arch))
         /\ \A i \in 1 .. Len(ProtoBufOf(arch)) : ProtoBufOf(arch)[i].arch = arch
<1> DEFINE Pair(c) == <<ProtoBuf(arch, c, "LIB"), ProtoBuf(arch, c, "DLL")>>
<1>1. ASSUME NEW c \in ConfigSet
      PROVE  /\ Pair(c) \in Seq(Builds)
             /\ Injective(Pair(c))
             /\ Len(Pair(c)) = 2
             /\ \A i \in 1 .. 2 : Pair(c)[i].arch = arch /\ Pair(c)[i].config = c
  BY DEF Builds, ProtoBuf, Injective
<1>2. PICK c, d \in ConfigSet : Configs = <<c>> \/ (Configs = <<c, d>> /\ c # d)
  BY ConfigsShape
<1> HIDE DEF Pair
<1>3. ProtoBufOf(arch) = FlattenSeq([k \in DOMAIN Configs |-> Pair(Configs[k])])
  BY DEF ProtoBufOf, Pair
<1>4. CASE Configs = <<c>>
  <2>1. [k \in DOMAIN Configs |-> Pair(Configs[k])] = <<Pair(c)>>
    BY <1>4
  <2>2. ProtoBufOf(arch) = Pair(c)
    BY <1>1, <1>3, <2>1, FlattenOne
  <2> QED BY <1>1, <2>2
<1>5. CASE Configs = <<c, d>> /\ c # d
  <2>1. [k \in DOMAIN Configs |-> Pair(Configs[k])] = <<Pair(c), Pair(d)>>
    BY <1>5
  <2>2. ProtoBufOf(arch) = Pair(c) \o Pair(d)
    BY <1>1, <1>3, <2>1, FlattenTwo
  <2>3. \A i \in 1 .. Len(Pair(c)) : \A j \in 1 .. Len(Pair(d)) : Pair(c)[i] # Pair(d)[j]
    BY <1>1, <1>5
  <2>4. Injective(ProtoBufOf(arch))
    BY <1>1, <2>2, <2>3, ConcatInjective
  <2>5. \A i \in 1 .. Len(Pair(c) \o Pair(d)) : (Pair(c) \o Pair(d))[i].arch = arch
    BY <1>1
  <2> QED BY <1>1, <2>2, <2>4, <2>5
<1> QED BY <1>2, <1>4, <1>5

LEMMA AbseilTasksShape ==
  ASSUME NEW x
  PROVE  /\ AbseilTasks(x) \in Seq(AbseilBuilds)
         /\ Selected(x) = <<>> => AbseilTasks(x) = <<>>
<1>1. AbseilTasks(x) = FlattenSeq([a \in DOMAIN Selected(x) |-> AbseilOf(Selected(x)[a])])
  BY DEF AbseilTasks, AbseilOf
<1>2. CASE Selected(x) = <<>>
  <2>1. [a \in DOMAIN Selected(x) |-> AbseilOf(Selected(x)[a])] = <<>>
    BY <1>2
  <2> QED BY <1>1, <2>1 DEF FlattenSeq
<1>3. ASSUME NEW a \in {"x64", "Win32"}, Selected(x) = <<a>>
      PROVE  AbseilTasks(x) \in Seq(AbseilBuilds) /\ Selected(x) # <<>>
  <2>1. [i \in DOMAIN Selected(x) |-> AbseilOf(Selected(x)[i])] = <<AbseilOf(a)>>
    BY <1>3
  <2> QED BY <1>1, <1>3, <2>1, AbseilOfType, FlattenOne
<1>4. CASE Selected(x) = <<"x64", "Win32">>
  <2>1. [i \in DOMAIN Selected(x) |-> AbseilOf(Selected(x)[i])]
          = <<AbseilOf("x64"), AbseilOf("Win32")>>
    BY <1>4
  <2>2. AbseilTasks(x) = AbseilOf("x64") \o AbseilOf("Win32")
    BY <1>1, <2>1, AbseilOfType, FlattenTwo
  <2> QED BY <1>4, <2>2, AbseilOfType
<1> QED BY <1>2, <1>3, <1>4, SelectedShape

LEMMA ProtoBufTasksShape ==
  ASSUME NEW x
  PROVE  ProtoBufTasks(x) \in Seq(Builds) /\ Injective(ProtoBufTasks(x))
<1>1. ProtoBufTasks(x) = FlattenSeq([a \in DOMAIN Selected(x) |-> ProtoBufOf(Selected(x)[a])])
  BY DEF ProtoBufTasks, ProtoBufOf
<1>2. CASE Selected(x) = <<>>
  <2>1. [a \in DOMAIN Selected(x) |-> ProtoBufOf(Selected(x)[a])] = <<>>
    BY <1>2
  <2>2. ProtoBufTasks(x) = <<>>
    BY <1>1, <2>1 DEF FlattenSeq
  <2> QED BY <2>2 DEF Injective
<1>3. ASSUME NEW a \in {"x64", "Win32"}, Selected(x) = <<a>>
      PROVE  ProtoBufTasks(x) \in Seq(Builds) /\ Injective(ProtoBufTasks(x))
  <2>1. [i \in DOMAIN Selected(x) |-> ProtoBufOf(Selected(x)[i])] = <<ProtoBufOf(a)>>
    BY <1>3
  <2> QED BY <1>1, <2>1, ProtoBufOfShape, FlattenOne
<1>4. CASE Selected(x) = <<"x64", "Win32">>
  <2> DEFINE s == ProtoBufOf("x64")
             t == ProtoBufOf("Win32")
  <2>1. [i \in DOMAIN Selected(x) |-> ProtoBufOf(Selected(x)[i])] = <<s, t>>
    BY <1>4
  <2>2. /\ s \in Seq(Builds) /\ Injective(s) /\ t \in Seq(Builds) /\ Injective(t)
        /\ \A i \in 1 .. Len(s) : s[i].arch = "x64"
        /\ \A i \in 1 .. Len(t) : t[i].arch = "Win32"
    BY ProtoBufOfShape
  <2> HIDE DEF s, t
  <2>3. ProtoBufTasks(x) = s \o t
    BY <1>1, <2>1, <2>2, FlattenTwo
  <2>4. \A i \in 1 .. Len(s) : \A j \in 1 .. Len(t) : s[i] # t[j]
    BY <2>2
  <2> QED BY <2>2, <2>3, <2>4, ConcatInjective
<1> QED BY <1>2, <1>3, <1>4, SelectedShape

-----------------------------------------------------------------------------
(* The steps of the script on the log and on the tasks.                    *)

LogLines == [task : Tasks, result : {"PASSED", "FAILED"}]

LEMMA LogLinesFacts ==
  ASSUME NEW s \in Seq(LogLines)
  PROVE  /\ Len(s) \in Nat
         /\ \A i \in 1 .. Len(s) : s[i] \in LogLines /\ s[i].task \in Tasks
<1>1. Len(s) \in Nat /\ \A i \in 1 .. Len(s) : s[i] \in LogLines
  OBVIOUS
<1>2. \A x \in LogLines : x.task \in Tasks
  BY DEF LogLines
<1> QED BY <1>1, <1>2

LEMMA LoggedType ==
  ASSUME LogInv
  PROVE  Logged \in Seq(Tasks) /\ Len(Logged) = Len(log)
<1>1. log \in Seq(LogLines)
  BY DEF LogInv, LogLines
<1>2. Len(log) \in Nat /\ \A i \in 1 .. Len(log) : log[i].task \in Tasks
  BY <1>1, LogLinesFacts
<1> QED BY <1>2 DEF Logged

\* A line is added to the log.
LEMMA LogResultFacts ==
  ASSUME LogInv, NEW t \in Tasks, NEW result \in {"PASSED", "FAILED"}, LogResult(t, result)
  PROVE  /\ log' \in Seq(LogLines) /\ Len(log') = Len(log) + 1 /\ Len(log) \in Nat
         /\ \A i \in 1 .. Len(log) : log'[i] = log[i]
         /\ log'[Len(log) + 1] = [task |-> t, result |-> result]
         /\ Logged' = Append(Logged, t)
<1>1. log \in Seq(LogLines)
  BY DEF LogInv, LogLines
<1>2. [task |-> t, result |-> result] \in LogLines
  BY DEF LogLines
<1>3. /\ log' \in Seq(LogLines) /\ Len(log') = Len(log) + 1 /\ Len(log) \in Nat
      /\ \A i \in 1 .. Len(log) : log'[i] = log[i]
      /\ log'[Len(log) + 1] = [task |-> t, result |-> result]
  BY <1>1, <1>2 DEF LogResult
<1>4. Logged' = Append(Logged, t)
  <2>1. Logged' \in Seq(Tasks) /\ Len(Logged') = Len(log) + 1
    BY <1>3, LogLinesFacts DEF Logged
  <2>2. Logged \in Seq(Tasks) /\ Len(Logged) = Len(log)
    BY LoggedType
  <2>3. Append(Logged, t) \in Seq(Tasks) /\ Len(Append(Logged, t)) = Len(log) + 1
    BY <2>2
  <2>4. ASSUME NEW i \in 1 .. Len(log) + 1
        PROVE  Logged'[i] = Append(Logged, t)[i]
    <3>1. Logged'[i] = log'[i].task
      BY <1>3 DEF Logged
    <3>2. CASE i = Len(log) + 1
      BY <1>3, <2>2, <3>1, <3>2
    <3>3. CASE i \in 1 .. Len(log)
      <4>1. Append(Logged, t)[i] = Logged[i] /\ Logged[i] = log[i].task
        BY <2>2, <3>3 DEF Logged
      <4> QED BY <1>3, <3>1, <3>3, <4>1
    <3>4. i = Len(log) + 1 \/ i \in 1 .. Len(log)
      BY <1>3
    <3> QED BY <3>2, <3>3, <3>4
  <2> QED BY <2>1, <2>3, <2>4, SeqEqual
<1> QED BY <1>3, <1>4

LEMMA EndTaskFacts ==
  ASSUME LogInv, NEW S \in {AbseilBuilds, Builds}, todo \in Seq(S), todo # <<>>,
         NEW result \in {"PASSED", "FAILED"}, NEW stage, EndTask(result, stage)
  PROVE  /\ LogResult(Task, result) /\ Task \in S /\ Task \in Tasks
         /\ Task = todo[1] /\ pc' = stage
         /\ todo' \in Seq(S) /\ Len(todo) \in Nat /\ Len(todo') = Len(todo) - 1
         /\ \A j \in 1 .. Len(todo') : todo'[j] = todo[j + 1]
BY DEF EndTask, Task, Tasks

LEMMA AbseilTasksNotBuilds == AbseilBuilds \cap Builds = {} /\ CopyTasks \cap Builds = {}
BY DEF AbseilBuilds, Builds, CopyTasks, Copy, ProtoBuf

(* All of the invariant but the types of the directories. *)
TaskInv == SettingsInv /\ TodoInv /\ LogInv /\ BuiltInv /\ CopyInv /\ OrderInv

LEMMA AbseilEnds ==
  ASSUME TaskInv, pc \in AbseilStage, todo # <<>>,
         NEW result \in {"PASSED", "FAILED"}, EndTask(result, "abseil"),
         UNCHANGED <<run, settings, builds>>
  PROVE  TaskInv'
<1>1. todo \in Seq(AbseilBuilds)
  BY DEF TaskInv, TodoInv
<1>2. /\ LogResult(Task, result) /\ Task \in AbseilBuilds /\ Task \in Tasks
      /\ pc' = "abseil" /\ todo' \in Seq(AbseilBuilds)
  BY <1>1, EndTaskFacts DEF TaskInv
<1>3. /\ log' \in Seq(LogLines) /\ Len(log') = Len(log) + 1 /\ Len(log) \in Nat
      /\ \A i \in 1 .. Len(log) : log'[i] = log[i]
      /\ log'[Len(log) + 1] = [task |-> Task, result |-> result]
      /\ Logged' = Append(Logged, Task)
  BY <1>2, LogResultFacts DEF TaskInv
<1>4. SettingsInv' /\ TodoInv' /\ CopyInv'
  BY <1>2 DEF TaskInv, SettingsInv, TodoInv, CopyInv, AbseilStage, ProtoBufStage, CopyStage
<1>5. LogInv'
  <2>1. \A i \in 1 .. Len(log) : log[i].task \in AbseilBuilds
    BY DEF TaskInv, LogInv
  <2>2. \A i \in 1 .. Len(log') : log'[i].task \in AbseilBuilds
    BY <1>2, <1>3, <2>1
  <2> QED BY <1>2, <1>3, <2>2 DEF LogInv, LogLines, AbseilStage, ProtoBufStage
<1>6. BuiltInv'
  <2> SUFFICES ASSUME NEW i \in 1 .. Len(log'), log'[i].task \in Builds,
                      log'[i].result = "PASSED"
               PROVE  builds'[log'[i].task] = [library |-> run', exe |-> run']
    BY DEF BuiltInv
  <2>1. i \in 1 .. Len(log)
    BY <1>2, <1>3, AbseilTasksNotBuilds
  <2> QED BY <1>3, <2>1 DEF TaskInv, BuiltInv
<1>7. OrderInv'
  <2>1. Logged' \o todo' = Logged \o todo
    <3>1. Logged \in Seq(Tasks) /\ todo \in Seq(Tasks)
      BY <1>1, LoggedType DEF TaskInv, Tasks
    <3> QED BY <1>3, <3>1, MoveHead DEF EndTask, Task
  <2>2. Left = todo /\ Left' = todo'
    BY <1>2 DEF Left, AbseilStage, ProtoBufStage
  <2> QED BY <1>2, <2>1, <2>2 DEF TaskInv, OrderInv, AbseilStage, ProtoBufStage, CopyStage
<1> QED BY <1>4, <1>5, <1>6, <1>7 DEF TaskInv

LEMMA ProtoBufEnds ==
  ASSUME TaskInv, pc \in ProtoBufStage, todo # <<>>,
         NEW result \in {"PASSED", "FAILED"}, EndTask(result, "protobuf"),
         UNCHANGED <<run, settings>>,
         \A t \in Builds : t # Task => builds'[t] = builds[t],
         result = "PASSED" => builds'[Task] = [library |-> run, exe |-> run]
  PROVE  TaskInv'
<1>1. todo \in Seq(Builds) /\ Injective(todo)
  BY DEF TaskInv, TodoInv
<1>2. /\ LogResult(Task, result) /\ Task \in Builds /\ Task \in Tasks /\ Task = todo[1]
      /\ pc' = "protobuf" /\ todo' \in Seq(Builds) /\ Len(todo) \in Nat
      /\ Len(todo') = Len(todo) - 1 /\ \A j \in 1 .. Len(todo') : todo'[j] = todo[j + 1]
  BY <1>1, EndTaskFacts DEF TaskInv
<1>3. /\ log' \in Seq(LogLines) /\ Len(log') = Len(log) + 1 /\ Len(log) \in Nat
      /\ \A i \in 1 .. Len(log) : log'[i] = log[i]
      /\ log'[Len(log) + 1] = [task |-> Task, result |-> result]
      /\ Logged' = Append(Logged, Task)
  BY <1>2, LogResultFacts DEF TaskInv
<1>4. SettingsInv' /\ CopyInv'
  BY <1>2 DEF TaskInv, SettingsInv, CopyInv, CopyStage
<1>5. TodoInv'
  <2>1. Injective(todo)'
    BY <1>1, <1>2 DEF Injective
  <2> QED BY <1>2, <2>1 DEF TaskInv, TodoInv, AbseilStage, ProtoBufStage
<1>6. ASSUME NEW i \in 1 .. Len(log), NEW j \in 1 .. Len(todo)
      PROVE  log[i].task # todo[j]
  BY DEF TaskInv, LogInv
<1>7. LogInv'
  <2>1. ASSUME NEW i \in 1 .. Len(log'), NEW j \in 1 .. Len(todo')
        PROVE  log'[i].task # todo'[j]
    <3>1. j + 1 \in 1 .. Len(todo) /\ j + 1 # 1 /\ todo'[j] = todo[j + 1]
      BY <1>2
    <3>2. CASE i \in 1 .. Len(log)
      BY <1>3, <1>6, <3>1, <3>2
    <3>3. CASE i = Len(log) + 1
      <4>1. todo[j + 1] # todo[1]
        BY <1>1, <1>2, <3>1 DEF Injective
      <4> QED BY <1>2, <1>3, <3>1, <3>3, <4>1
    <3> QED BY <1>3, <3>2, <3>3
  <2> QED BY <1>2, <1>3, <2>1 DEF LogInv, LogLines, AbseilStage, ProtoBufStage
<1>8. BuiltInv'
  <2> SUFFICES ASSUME NEW i \in 1 .. Len(log'), log'[i].task \in Builds,
                      log'[i].result = "PASSED"
               PROVE  builds'[log'[i].task] = [library |-> run', exe |-> run']
    BY DEF BuiltInv
  <2>1. CASE i \in 1 .. Len(log)
    <3>1. log[i].task # Task
      BY <1>2, <1>6, <2>1
    <3> QED BY <1>3, <2>1, <3>1 DEF TaskInv, BuiltInv
  <2>2. CASE i = Len(log) + 1
    BY <1>3, <2>2
  <2> QED BY <1>3, <2>1, <2>2
<1>9. OrderInv'
  <2>1. Logged' \o (todo' \o Copies) = Logged \o (todo \o Copies)
    <3>1. Logged \in Seq(Tasks) /\ todo \in Seq(Tasks) /\ Copies \in Seq(Tasks)
      BY <1>1, LoggedType DEF TaskInv, Tasks, Copies, CopyTasks
    <3>2. Append(Logged, Head(todo)) \o (Tail(todo) \o Copies) = Logged \o (todo \o Copies)
      BY <3>1, MoveHeadBefore
    <3>3. Logged' = Append(Logged, Head(todo)) /\ todo' = Tail(todo)
      BY <1>3 DEF EndTask, Task
    <3> QED BY <3>2, <3>3, Zenon
  <2>2. Left = todo \o Copies /\ Left' = todo' \o Copies
    BY <1>2 DEF Left, AbseilStage, ProtoBufStage
  <2> QED BY <1>2, <2>1, <2>2 DEF TaskInv, OrderInv, AbseilStage, ProtoBufStage
<1> QED BY <1>4, <1>5, <1>7, <1>8, <1>9 DEF TaskInv

\* A command of a task that is not the last one.
LEMMA TaskGoesOn ==
  ASSUME TaskInv, todo # <<>>, UNCHANGED <<run, settings, todo, log>>,
         \/ pc \in AbseilStage /\ pc' \in AbseilStage /\ UNCHANGED builds
         \/ pc \in ProtoBufStage /\ pc' \in ProtoBufStage,
         \A t \in Builds : t # Task => builds'[t] = builds[t]
  PROVE  TaskInv'
<1>1. SettingsInv' /\ TodoInv' /\ LogInv' /\ CopyInv'
  BY DEF TaskInv, SettingsInv, TodoInv, LogInv, CopyInv, AbseilStage, ProtoBufStage, CopyStage,
         Injective
<1>2. BuiltInv'
  <2>1. CASE UNCHANGED builds
    BY <2>1 DEF TaskInv, BuiltInv
  <2>2. CASE pc \in ProtoBufStage
    <3>1. Task = todo[1] /\ 1 \in 1 .. Len(todo)
      BY <2>2 DEF TaskInv, TodoInv, Task
    <3>2. \A i \in 1 .. Len(log) : log[i].task # Task
      BY <2>2, <3>1 DEF TaskInv, LogInv
    <3> QED BY <3>2 DEF TaskInv, BuiltInv
  <2> QED BY <2>1, <2>2
<1>3. OrderInv'
  <2>1. Left' = Left
    BY DEF Left, AbseilStage, ProtoBufStage
  <2>2. Logged' = Logged
    BY DEF Logged
  <2> QED BY <2>1, <2>2 DEF TaskInv, OrderInv, AbseilStage, ProtoBufStage, CopyStage
<1> QED BY <1>1, <1>2, <1>3 DEF TaskInv

LEMMA ChooseArchitectureInv ==
  ASSUME TaskInv, ChooseArchitecture
  PROVE  TaskInv'
<1> DEFINE given == settings.BUILD_ARCHITECTURE
           used  == IF Selected(given) = <<>> THEN Value("X64", FALSE) ELSE given
<1>1. /\ pc = "abseil" /\ todo = <<>> /\ todo' = ProtoBufTasks(used) /\ pc' = "protobuf"
      /\ UNCHANGED <<run, log, builds>>
      /\ settings' = [settings EXCEPT !.BUILD_ARCHITECTURE = used]
  BY DEF ChooseArchitecture
<1>2. SettingsInv
  BY DEF TaskInv
<1>4. SettingsInv' /\ settings'.BUILD_ARCHITECTURE = used
  <2> HIDE DEF used
  <2>1. "BUILD_ARCHITECTURE" \in DOMAIN settings
    BY <1>2 DEF SettingsInv, FlagNames
  <2> QED BY <1>1, <1>2, <2>1 DEF SettingsInv
<1>5. AbseilTasks(used) = AbseilTasks(given) \/ AbseilTasks(given) = <<>>
  BY AbseilTasksShape
<1> HIDE DEF used
<1>6. ProtoBufTasks(used) \in Seq(Builds) /\ Injective(ProtoBufTasks(used))
  BY ProtoBufTasksShape
<1>7. TodoInv'
  BY <1>1, <1>6 DEF TaskInv, TodoInv, AbseilStage, ProtoBufStage, Injective
<1>8. LogInv'
  <2>1. ASSUME NEW i \in 1 .. Len(log), NEW j \in 1 .. Len(todo')
        PROVE  log[i].task # todo'[j]
    <3>1. log[i].task \in AbseilBuilds
      BY <1>1 DEF TaskInv, LogInv, AbseilStage
    <3>2. todo'[j] \in Builds
      BY <1>1, <1>6
    <3> QED BY <3>1, <3>2, AbseilTasksNotBuilds
  <2> QED BY <1>1, <2>1 DEF TaskInv, LogInv, AbseilStage, ProtoBufStage
<1>9. BuiltInv' /\ CopyInv'
  BY <1>1 DEF TaskInv, BuiltInv, CopyInv, CopyStage
<1>10. OrderInv'
  <2> DEFINE wanted == ProtoBufTasks(used) \o Copies
  <2>1. Logged \in Seq(Tasks) /\ wanted \in Seq(Tasks) /\ Logged' = Logged
    BY <1>1, <1>6, LoggedType DEF TaskInv, Tasks, Copies, CopyTasks, Logged
  <2>2. Logged \in {<<>>, AbseilTasks(given)}
    <3>1. Left = <<>> /\ Logged \o <<>> = Logged
      BY <1>1, <2>1 DEF Left, AbseilStage, ProtoBufStage
    <3> QED BY <1>1, <3>1 DEF TaskInv, OrderInv, AbseilStage
  <2>3. Left' = wanted
    BY <1>1 DEF Left, AbseilStage, ProtoBufStage
  <2>4. Logged' \o Left' \in {wanted, AbseilTasks(used) \o wanted}
    <3>1. <<>> \o wanted = wanted
      BY <2>1
    <3> HIDE DEF wanted
    <3>2. Logged = <<>> \/ Logged = AbseilTasks(used)
      BY <1>5, <2>2
    <3> QED BY <2>1, <2>3, <3>1, <3>2
  <2> QED BY <1>1, <1>4, <2>4 DEF OrderInv, AbseilStage, ProtoBufStage
<1> QED BY <1>4, <1>7, <1>8, <1>9, <1>10 DEF TaskInv

\* A copy step adds its line to the log and goes on to the next one.
LEMMA CopyLogged ==
  ASSUME TaskInv, UNCHANGED <<run, settings, todo, builds>>, NEW name,
         \/ pc = "protobuf" /\ todo = <<>> /\ name = "Copy_Bin_Files" /\ pc' = "copy_lib"
         \/ pc = "copy_lib" /\ name = "Copy_Lib_Files" /\ pc' = "copy_headers"
         \/ pc = "copy_headers" /\ name = "Copy_Header_Files" /\ pc' = "complete",
         LogResult(Copy(name), "PASSED")
  PROVE  /\ SettingsInv' /\ TodoInv' /\ LogInv' /\ BuiltInv' /\ OrderInv'
         /\ \A p \in Places : DllPassed(p)' => DllPassed(p)
<1>1. Copy(name) \in CopyTasks /\ Copy(name) \in Tasks
  BY DEF CopyTasks, Tasks
<1>2. /\ log' \in Seq(LogLines) /\ Len(log') = Len(log) + 1 /\ Len(log) \in Nat
      /\ \A i \in 1 .. Len(log) : log'[i] = log[i]
      /\ log'[Len(log) + 1] = [task |-> Copy(name), result |-> "PASSED"]
      /\ Logged' = Append(Logged, Copy(name))
  BY <1>1, LogResultFacts DEF TaskInv
<1>3. todo = <<>>
  BY DEF TaskInv, TodoInv, AbseilStage, ProtoBufStage
<1>4. SettingsInv' /\ TodoInv' /\ LogInv'
  <2>1. SettingsInv'
    BY DEF TaskInv, SettingsInv
  <2>2. TodoInv'
    BY <1>3 DEF TaskInv, TodoInv, AbseilStage, ProtoBufStage
  <2>3. LogInv'
    BY <1>2 DEF LogInv, LogLines, AbseilStage, ProtoBufStage
  <2> QED BY <2>1, <2>2, <2>3
<1>5. ASSUME NEW i \in 1 .. Len(log'), log'[i].task \in Builds
      PROVE  i \in 1 .. Len(log) /\ log'[i] = log[i]
  <2>1. [task |-> Copy(name), result |-> "PASSED"].task \notin Builds
    BY <1>1, AbseilTasksNotBuilds
  <2>2. i # Len(log) + 1
    BY <1>2, <1>5, <2>1, Zenon
  <2> QED BY <1>2, <2>2
<1>6. BuiltInv'
  BY <1>2, <1>5 DEF TaskInv, BuiltInv
<1>7. \A p \in Places : DllPassed(p)' => DllPassed(p)
  <2>1. \A p \in Places : ProtoBuf(p[1], p[2], "DLL") \in Builds
    BY DEF Places, ProtoBuf, Builds
  <2> QED BY <1>5, <2>1 DEF DllPassed
<1>8. OrderInv'
  <2>1. Left = <<Copy(name)>> \o Left' /\ Left' \in Seq(Tasks)
    <3>1. CASE pc = "protobuf"
      <4>1. Left = <<>> \o Copies /\ Copies \in Seq(CopyTasks)
        BY <1>3, <3>1 DEF Left, AbseilStage, ProtoBufStage, Copies, CopyTasks
      <4>2. Left = Copies
        BY <4>1
      <4>3. Left' = <<Copy("Copy_Lib_Files"), Copy("Copy_Header_Files")>>
        BY <3>1 DEF Left, AbseilStage, ProtoBufStage
      <4> HIDE DEF Copy
      <4> QED BY <3>1, <4>2, <4>3 DEF Copies, Tasks, CopyTasks
    <3>2. CASE pc = "copy_lib"
      <4>1. /\ Left = <<Copy("Copy_Lib_Files"), Copy("Copy_Header_Files")>>
            /\ Left' = <<Copy("Copy_Header_Files")>>
        BY <3>2 DEF Left, AbseilStage, ProtoBufStage
      <4> QED BY <3>2, <4>1 DEF Tasks, CopyTasks
    <3>3. CASE pc = "copy_headers"
      <4>1. Left = <<Copy("Copy_Header_Files")>> /\ Left' = <<>>
        BY <3>3 DEF Left, AbseilStage, ProtoBufStage
      <4> QED BY <3>3, <4>1
    <3> QED BY <3>1, <3>2, <3>3
  <2>2. Logged \in Seq(Tasks)
    BY LoggedType DEF TaskInv
  <2>3. Logged' \o Left' = Logged \o Left
    <3>1. Append(Logged, Copy(name)) = Logged \o <<Copy(name)>>
      BY <2>2, <1>1
    <3>2. (Logged \o <<Copy(name)>>) \o Left' = Logged \o (<<Copy(name)>> \o Left')
      <4>1. <<Copy(name)>> \in Seq(Tasks)
        BY <1>1
      <4> QED BY <2>1, <2>2, <4>1, ConcatAssociative
    <3> QED BY <1>2, <2>1, <3>1, <3>2, Zenon
  <2>4. pc \in ProtoBufStage \cup CopyStage /\ pc' \in CopyStage /\ pc' \notin AbseilStage
    BY DEF ProtoBufStage, CopyStage, AbseilStage
  <2> QED BY <2>3, <2>4 DEF TaskInv, OrderInv
<1> QED BY <1>4, <1>6, <1>7, <1>8

\* What a DLL build that passed offers to the copy steps.
LEMMA DllOfPassed ==
  ASSUME TaskInv, NEW p \in Places, DllPassed(p), NEW dir, NEW failed,
         <<dir, p>> \notin Lost(dir, failed)
  PROVE  DllOf(p, failed) = [library |-> run, exe |-> run]
<1> DEFINE t == ProtoBuf(p[1], p[2], "DLL")
<1>1. t \in Builds /\ <<t.arch, t.config>> = p
  BY DEF Places, ProtoBuf, Builds
<1>2. builds[t] = [library |-> run, exe |-> run]
  <2>1. PICK i \in 1 .. Len(log) : log[i].task = t /\ log[i].result = "PASSED"
    BY DEF DllPassed
  <2> QED BY <1>1, <2>1 DEF TaskInv, BuiltInv
<1>3. t \notin failed
  BY <1>1 DEF Lost
<1> HIDE DEF t
<1> QED BY <1>2, <1>3 DEF DllOf, t

LEMMA CopyBinFilesInv ==
  ASSUME TaskInv, CopyBinFiles, TypeOK
  PROVE  TaskInv'
<1>1. /\ SettingsInv' /\ TodoInv' /\ LogInv' /\ BuiltInv' /\ OrderInv'
      /\ \A p \in Places : DllPassed(p)' => DllPassed(p)
  BY CopyLogged DEF CopyBinFiles
<1>2. run \in Nat /\ run > 0 /\ run' = run /\ pc' = "copy_lib"
  BY RunsAssumption DEF CopyBinFiles, TaskInv, TodoInv, TypeOK
<1>3. ASSUME NEW p \in Places, DllPassed(p), <<"bin", p>> \notin lost'
      PROVE  bin'[p].exe = File("DLL", run) /\ bin'[p].dll = File("DLL", run)
  <2>1. PICK failed :
          /\ bin' = [q \in Places |->
               LET L == LibOf(q, failed)
                   D == DllOf(q, failed) IN
               [exe  |-> Copied(L.exe, D.exe, bin[q].exe),
                dll  |-> IF D.library > 0 THEN File("DLL", D.library) ELSE bin[q].dll,
                absl |-> IF /\ External /\ Equals(settings.BUILD_SHARED_LIBS, "ON")
                            /\ abseil[q].dlls > 0
                         THEN abseil[q].dlls ELSE bin[q].absl]]
          /\ lost' = Lost("bin", failed)
    BY DEF CopyBinFiles
  <2>2. DllOf(p, failed) = [library |-> run, exe |-> run]
    BY <1>3, <2>1, DllOfPassed
  <2>3. /\ bin'[p].exe = Copied(LibOf(p, failed).exe, DllOf(p, failed).exe, bin[p].exe)
        /\ bin'[p].dll = IF DllOf(p, failed).library > 0
                         THEN File("DLL", DllOf(p, failed).library) ELSE bin[p].dll
    BY <2>1
  <2> QED BY <1>2, <2>2, <2>3 DEF Copied
<1>4. CopyInv'
  BY <1>1, <1>2, <1>3 DEF CopyInv, CopyStage
<1> QED BY <1>1, <1>4 DEF TaskInv

LEMMA CopyLibFilesInv ==
  ASSUME TaskInv, CopyLibFiles, TypeOK
  PROVE  TaskInv'
<1>1. /\ SettingsInv' /\ TodoInv' /\ LogInv' /\ BuiltInv' /\ OrderInv'
      /\ \A p \in Places : DllPassed(p)' => DllPassed(p)
  BY CopyLogged DEF CopyLibFiles
<1>2. /\ run \in Nat /\ run > 0 /\ run' = run /\ pc = "copy_lib" /\ pc' = "copy_headers"
      /\ bin' = bin /\ lost \subseteq lost'
  BY RunsAssumption DEF CopyLibFiles, TaskInv, TodoInv, TypeOK
<1>3. ASSUME NEW p \in Places, DllPassed(p), <<"lib", p>> \notin lost'
      PROVE  lib'[p].libprotobuf = File("DLL", run)
  <2>1. PICK failed :
          /\ lib' = [q \in Places |->
               [libprotobuf |-> Copied(LibOf(q, failed).library, DllOf(q, failed).library,
                                       lib[q].libprotobuf),
                absl |-> IF External /\ abseil[q].installed > 0
                         THEN abseil[q].installed ELSE lib[q].absl]]
          /\ lost' = lost \cup Lost("lib", failed)
    BY DEF CopyLibFiles
  <2>2. DllOf(p, failed) = [library |-> run, exe |-> run]
    BY <1>3, <2>1, DllOfPassed
  <2>3. lib'[p].libprotobuf = Copied(LibOf(p, failed).library, DllOf(p, failed).library,
                                     lib[p].libprotobuf)
    BY <2>1
  <2> QED BY <1>2, <2>2, <2>3 DEF Copied
<1>4. CopyInv'
  BY <1>1, <1>2, <1>3 DEF TaskInv, CopyInv, CopyStage
<1> QED BY <1>1, <1>4 DEF TaskInv

LEMMA CopyHeaderFilesInv ==
  ASSUME TaskInv, CopyHeaderFiles
  PROVE  TaskInv'
<1>1. /\ SettingsInv' /\ TodoInv' /\ LogInv' /\ BuiltInv' /\ OrderInv'
      /\ \A p \in Places : DllPassed(p)' => DllPassed(p)
  BY CopyLogged DEF CopyHeaderFiles
<1>2. /\ run' = run /\ pc = "copy_headers" /\ pc' = "complete"
      /\ bin' = bin /\ lib' = lib /\ lost \subseteq lost'
  BY DEF CopyHeaderFiles
<1>3. CopyInv'
  BY <1>1, <1>2 DEF TaskInv, CopyInv, CopyStage
<1> QED BY <1>1, <1>3 DEF TaskInv

LEMMA BuildCompleteInv ==
  ASSUME TaskInv, BuildComplete
  PROVE  TaskInv'
<1>1. SettingsInv' /\ TodoInv' /\ LogInv' /\ BuiltInv'
  BY DEF BuildComplete, TaskInv, SettingsInv, TodoInv, LogInv, BuiltInv, AbseilStage,
         ProtoBufStage
<1>2. CopyInv' /\ OrderInv'
  BY DEF BuildComplete, CopyInv, OrderInv, AbseilStage, ProtoBufStage, CopyStage
<1> QED BY <1>1, <1>2 DEF TaskInv

LEMMA StartScriptInv ==
  ASSUME TaskInv, TypeOK, NEW s \in Settings, StartScript(s)
  PROVE  TaskInv'
<1>1. /\ settings' = s /\ log' = <<>> /\ pc' = "abseil" /\ run' = run + 1 /\ run \in Nat
      /\ todo' \in {<<>>, AbseilTasks(s.BUILD_ARCHITECTURE)}
  BY RunsAssumption DEF StartScript, TypeOK
<1>2. todo' \in Seq(AbseilBuilds)
  <2>1. AbseilTasks(s.BUILD_ARCHITECTURE) \in Seq(AbseilBuilds) /\ <<>> \in Seq(AbseilBuilds)
    BY AbseilTasksShape
  <2> QED BY <1>1, <2>1, Zenon
<1>3. SettingsInv' /\ TodoInv' /\ BuiltInv' /\ CopyInv'
  <2>1. SettingsInv'
    BY <1>1, SettingsAssumption DEF SettingsInv
  <2>2. TodoInv'
    BY <1>1, <1>2 DEF TodoInv, AbseilStage, ProtoBufStage
  <2>3. BuiltInv'
    BY <1>1 DEF BuiltInv
  <2>4. CopyInv'
    BY <1>1 DEF CopyInv, CopyStage
  <2> QED BY <2>1, <2>2, <2>3, <2>4
<1>4. LogInv'
  BY <1>1 DEF LogInv, ProtoBufStage
<1>5. OrderInv'
  <2>1. Logged' = <<>>
    BY <1>1 DEF Logged
  <2>2. Left' = todo' /\ <<>> \o todo' = todo'
    BY <1>1, <1>2 DEF Left, AbseilStage, ProtoBufStage
  <2> QED BY <1>1, <2>1, <2>2 DEF OrderInv, AbseilStage, ProtoBufStage, CopyStage
<1> QED BY <1>3, <1>4, <1>5 DEF TaskInv

-----------------------------------------------------------------------------
(* Types.                                                                  *)

Installs(n) == [built : 0 .. n, installDir : BOOLEAN, installed : 0 .. n, dlls : 0 .. n]
Artifacts(n) == [library : 0 .. n, exe : 0 .. n]
Files(n) == [type : {"none", "LIB", "DLL"}, run : 0 .. n]
Stages == {"idle", "abseil", "absl_configure", "absl_build", "absl_install", "protobuf",
           "configure", "build", "copy_lib", "copy_headers", "complete"}

LEMMA TypeParts ==
  TypeOK <=>
    /\ run \in 0 .. MaxRuns
    /\ pc \in Stages
    /\ builds \in [Builds -> Artifacts(run)]
    /\ abseil \in [Places -> Installs(run)]
    /\ bin \in [Places -> [exe : Files(run), dll : Files(run), absl : 0 .. run]]
    /\ lib \in [Places -> [libprotobuf : Files(run), absl : 0 .. run]]
    /\ include \in [google : 0 .. run, absl : 0 .. run]
BY DEF TypeOK, Installs, Artifacts, Files, Stages

LEMMA AbseilPlace ==
  ASSUME TodoInv, pc \in AbseilStage, todo # <<>>
  PROVE  TaskPlace \in Places
<1>1. Task \in AbseilBuilds
  BY DEF TodoInv, Task
<1> QED BY <1>1 DEF AbseilBuilds, TaskPlace, Places

LEMMA BuildTask ==
  ASSUME TodoInv, pc \in ProtoBufStage, todo # <<>>
  PROVE  Task \in Builds
BY DEF TodoInv, Task

\* The commands of the Abseil stage put stamps of this run into a directory.
LEMMA AbseilType ==
  ASSUME TypeOK, TodoInv, AbseilPrepare \/ AbseilConfigure \/ AbseilBuild \/ AbseilInstall
  PROVE  TypeOK'
<1>1. /\ UNCHANGED <<run, builds, bin, lib, include>>
      /\ pc \in AbseilStage /\ pc' \in AbseilStage /\ todo # <<>>
  BY DEF AbseilPrepare, AbseilConfigure, AbseilBuild, AbseilInstall, EndTask, AbseilStage,
         TodoInv, ProtoBufStage
<1>2. TaskPlace \in Places
  BY <1>1, AbseilPlace
<1>3. run \in 0 .. run /\ 0 \in 0 .. run /\ abseil \in [Places -> Installs(run)]
  BY TypeParts, RunsAssumption
<1>4. abseil[TaskPlace] \in Installs(run)
  BY <1>2, <1>3
<1>5. abseil' \in [Places -> Installs(run)]
  <2> HIDE DEF TaskPlace
  <2>1. CASE AbseilPrepare /\ ~UNCHANGED abseil
    <3> DEFINE r == [built |-> IF Equals(settings.CLEAN_ABSEIL_BUILDS, "ON")
                               THEN 0 ELSE abseil[TaskPlace].built,
                     installDir |-> TRUE, installed |-> abseil[TaskPlace].installed,
                     dlls |-> abseil[TaskPlace].dlls]
    <3>1. abseil' = [abseil EXCEPT ![TaskPlace] = r]
      BY <2>1 DEF AbseilPrepare
    <3>2. r \in Installs(run)
      BY <1>3, <1>4 DEF Installs
    <3> HIDE DEF r
    <3> QED BY <1>3, <3>1, <3>2
  <2>2. CASE AbseilBuild /\ ~UNCHANGED abseil
    <3>1. abseil' = [abseil EXCEPT ![TaskPlace].built = run]
      BY <2>2 DEF AbseilBuild
    <3> QED BY <1>3, <1>4, <3>1 DEF Installs
  <2>3. CASE AbseilInstall /\ ~UNCHANGED abseil
    <3> DEFINE d == IF settings.BUILD_SHARED_LIBS.text = "ON" THEN run
                    ELSE abseil[TaskPlace].dlls
    <3>1. abseil' = [abseil EXCEPT ![TaskPlace].installed = run, ![TaskPlace].dlls = d]
      BY <2>3 DEF AbseilInstall
    <3>2. d \in 0 .. run
      BY <1>3, <1>4 DEF Installs
    <3> HIDE DEF d
    <3> QED BY <1>3, <1>4, <3>1, <3>2 DEF Installs
  <2> QED BY <1>3, <2>1, <2>2, <2>3 DEF AbseilConfigure
<1> QED BY <1>1, <1>5, TypeParts DEF TypeOK, AbseilStage, Installs

LEMMA CleanedType ==
  ASSUME TypeOK, TodoInv, pc \in ProtoBufStage, todo # <<>>
  PROVE  /\ Cleaned \in [Builds -> Artifacts(run)]
         /\ \A t \in Builds : t # Task => Cleaned[t] = builds[t]
<1>1. Task \in Builds /\ builds \in [Builds -> Artifacts(run)] /\ NoBuild \in Artifacts(run)
  BY BuildTask, TypeParts, RunsAssumption DEF NoBuild, Artifacts
<1> HIDE DEF Task, NoBuild
<1> QED BY <1>1 DEF Cleaned

LEMMA ProtoBufType ==
  ASSUME TypeOK, TodoInv, ProtoBufPrepare \/ ProtoBufConfigure \/ ProtoBufBuild
  PROVE  TypeOK' /\ \A t \in Builds : t # Task => builds'[t] = builds[t]
<1>1. /\ UNCHANGED <<run, abseil, bin, lib, include>>
      /\ pc \in ProtoBufStage /\ pc' \in ProtoBufStage /\ todo # <<>>
  BY DEF ProtoBufPrepare, ProtoBufConfigure, ProtoBufBuild, EndTask, ProtoBufStage,
         TodoInv, AbseilStage
<1>2. Task \in Builds
  BY <1>1, BuildTask
<1>3. run \in 0 .. run /\ builds \in [Builds -> Artifacts(run)]
  BY TypeParts, RunsAssumption
<1>4. [library |-> run, exe |-> run] \in Artifacts(run)
  BY <1>3 DEF Artifacts
<1>5. /\ builds' \in [Builds -> Artifacts(run)]
      /\ \A t \in Builds : t # Task => builds'[t] = builds[t]
  <2> HIDE DEF Task
  <2>1. CASE ProtoBufPrepare
    BY <1>1, <1>3, <2>1, CleanedType DEF ProtoBufPrepare
  <2>2. CASE ProtoBufConfigure
    BY <1>3, <2>2 DEF ProtoBufConfigure
  <2>3. CASE ProtoBufBuild
    <3> DEFINE b1 == [builds EXCEPT ![Task].library = run]
               b2 == [builds EXCEPT ![Task] = [library |-> run, exe |-> run]]
    <3>1. b1 \in [Builds -> Artifacts(run)] /\ \A t \in Builds : t # Task => b1[t] = builds[t]
      BY <1>2, <1>3 DEF Artifacts
    <3>2. b2 \in [Builds -> Artifacts(run)] /\ \A t \in Builds : t # Task => b2[t] = builds[t]
      BY <1>2, <1>3, <1>4
    <3>3. builds' \in {builds, b1, b2}
      BY <2>3 DEF ProtoBufBuild
    <3> HIDE DEF b1, b2
    <3> QED BY <1>3, <3>1, <3>2, <3>3
  <2> QED BY <2>1, <2>2, <2>3
<1>6. pc' \in Stages
  BY <1>1 DEF ProtoBufStage, Stages
<1> QED BY <1>1, <1>5, <1>6, TypeParts DEF TypeOK, Artifacts, Stages

LEMMA CopyType ==
  ASSUME TypeOK, CopyBinFiles \/ CopyLibFiles \/ CopyHeaderFiles
  PROVE  TypeOK'
<1> DEFINE Bins == [exe : Files(run), dll : Files(run), absl : 0 .. run]
           Libs == [libprotobuf : Files(run), absl : 0 .. run]
<1>1. /\ run \in Nat /\ run \in 0 .. MaxRuns /\ builds \in [Builds -> Artifacts(run)]
      /\ abseil \in [Places -> Installs(run)] /\ bin \in [Places -> Bins]
      /\ lib \in [Places -> Libs] /\ include \in [google : 0 .. run, absl : 0 .. run]
  BY TypeParts, RunsAssumption
<1>2. UNCHANGED <<run, builds, abseil>> /\ pc' \in Stages
  BY DEF CopyBinFiles, CopyLibFiles, CopyHeaderFiles, Stages
<1>3. ASSUME NEW p \in Places, NEW failed
      PROVE  LibOf(p, failed) \in Artifacts(run) /\ DllOf(p, failed) \in Artifacts(run)
  <2>1. ProtoBuf(p[1], p[2], "LIB") \in Builds /\ ProtoBuf(p[1], p[2], "DLL") \in Builds
    BY DEF Places, ProtoBuf, Builds
  <2>2. NoBuild \in Artifacts(run)
    BY <1>1 DEF NoBuild, Artifacts
  <2> HIDE DEF ProtoBuf
  <2> QED BY <1>1, <2>1, <2>2 DEF LibOf, DllOf
<1>4. ASSUME NEW x \in 0 .. run, NEW y \in 0 .. run, NEW old \in Files(run)
      PROVE  Copied(x, y, old) \in Files(run)
  BY DEF Copied, Files, File
<1>5. ASSUME NEW x \in 0 .. run, NEW old \in Files(run)
      PROVE  (IF x > 0 THEN File("DLL", x) ELSE old) \in Files(run)
  BY DEF Files, File
<1>6. ASSUME NEW x \in Artifacts(run)
      PROVE  x.library \in 0 .. run /\ x.exe \in 0 .. run
  BY DEF Artifacts
<1>7. ASSUME NEW p \in Places
      PROVE  /\ bin[p].exe \in Files(run) /\ bin[p].dll \in Files(run)
             /\ bin[p].absl \in 0 .. run /\ lib[p].libprotobuf \in Files(run)
             /\ lib[p].absl \in 0 .. run
             /\ abseil[p].dlls \in 0 .. run /\ abseil[p].installed \in 0 .. run
  <2>1. bin[p] \in Bins /\ lib[p] \in Libs /\ abseil[p] \in Installs(run)
    BY <1>1
  <2> QED BY <2>1 DEF Installs
<1>8. bin' \in [Places -> Bins]
  <2>1. CASE CopyBinFiles
    <3>1. PICK failed :
            bin' = [p \in Places |->
              LET L == LibOf(p, failed)
                  D == DllOf(p, failed) IN
              [exe  |-> Copied(L.exe, D.exe, bin[p].exe),
               dll  |-> IF D.library > 0 THEN File("DLL", D.library) ELSE bin[p].dll,
               absl |-> IF /\ External /\ Equals(settings.BUILD_SHARED_LIBS, "ON")
                           /\ abseil[p].dlls > 0
                        THEN abseil[p].dlls ELSE bin[p].absl]]
      BY <2>1 DEF CopyBinFiles
    <3>2. ASSUME NEW p \in Places
          PROVE  /\ Copied(LibOf(p, failed).exe, DllOf(p, failed).exe, bin[p].exe)
                      \in Files(run)
                 /\ (IF DllOf(p, failed).library > 0
                     THEN File("DLL", DllOf(p, failed).library) ELSE bin[p].dll) \in Files(run)
                 /\ (IF /\ External /\ Equals(settings.BUILD_SHARED_LIBS, "ON")
                        /\ abseil[p].dlls > 0
                     THEN abseil[p].dlls ELSE bin[p].absl) \in 0 .. run
      <4>1. /\ LibOf(p, failed).exe \in 0 .. run /\ DllOf(p, failed).exe \in 0 .. run
            /\ DllOf(p, failed).library \in 0 .. run
        BY <1>3, <1>6
      <4> HIDE DEF LibOf, DllOf, Copied, File
      <4> QED BY <1>4, <1>5, <1>7, <4>1
    <3> HIDE DEF LibOf, DllOf, Copied, File, Files
    <3> QED BY <3>1, <3>2
  <2>2. CASE ~CopyBinFiles
    BY <1>1, <2>2 DEF CopyLibFiles, CopyHeaderFiles
  <2> QED BY <2>1, <2>2
<1>9. lib' \in [Places -> Libs]
  <2>1. CASE CopyLibFiles
    <3>1. PICK failed :
            lib' = [p \in Places |->
              [libprotobuf |-> Copied(LibOf(p, failed).library, DllOf(p, failed).library,
                                      lib[p].libprotobuf),
               absl |-> IF External /\ abseil[p].installed > 0
                        THEN abseil[p].installed ELSE lib[p].absl]]
      BY <2>1 DEF CopyLibFiles
    <3>2. ASSUME NEW p \in Places
          PROVE  /\ Copied(LibOf(p, failed).library, DllOf(p, failed).library,
                           lib[p].libprotobuf) \in Files(run)
                 /\ (IF External /\ abseil[p].installed > 0
                     THEN abseil[p].installed ELSE lib[p].absl) \in 0 .. run
      <4>1. LibOf(p, failed).library \in 0 .. run /\ DllOf(p, failed).library \in 0 .. run
        BY <1>3, <1>6
      <4> QED BY <1>4, <1>7, <4>1
    <3> QED BY <3>1, <3>2
  <2>2. CASE ~CopyLibFiles
    BY <1>1, <2>2 DEF CopyBinFiles, CopyHeaderFiles
  <2> QED BY <2>1, <2>2
<1>10. include' \in [google : 0 .. run, absl : 0 .. run]
  <2>1. CASE CopyHeaderFiles
    <3> DEFINE i == abseil[<<"x64", "Release">>].installed
    <3>1. i \in 0 .. run
      <4>1. <<"x64", "Release">> \in Places
        BY ConfigsAssumption DEF Places, ConfigSet
      <4> QED BY <1>7, <4>1
    <3>2. PICK copied :
            include' = [google |-> IF "google" \in copied THEN run ELSE include.google,
                        absl   |-> IF "absl" \in copied THEN i ELSE include.absl]
      BY <2>1 DEF CopyHeaderFiles
    <3> HIDE DEF i
    <3> QED BY <1>1, <3>1, <3>2
  <2>2. CASE ~CopyHeaderFiles
    BY <1>1, <2>2 DEF CopyBinFiles, CopyLibFiles
  <2> QED BY <2>1, <2>2
<1> QED BY <1>1, <1>2, <1>8, <1>9, <1>10 DEF TypeOK, Installs, Artifacts, Files, Stages

LEMMA StartScriptType ==
  ASSUME TypeOK, NEW s \in Settings, StartScript(s)
  PROVE  TypeOK'
<1>1. /\ run' = run + 1 /\ run \in Nat /\ run' \in 0 .. MaxRuns /\ pc' = "abseil"
      /\ UNCHANGED <<builds, abseil, bin, lib, include>>
  BY RunsAssumption DEF StartScript, TypeOK
<1>2. 0 .. run \subseteq 0 .. run'
  BY <1>1
<1>3. /\ Artifacts(run) \subseteq Artifacts(run') /\ Installs(run) \subseteq Installs(run')
      /\ Files(run) \subseteq Files(run')
  BY <1>2 DEF Artifacts, Installs, Files
<1>4. /\ [exe : Files(run), dll : Files(run), absl : 0 .. run] \subseteq
           [exe : Files(run'), dll : Files(run'), absl : 0 .. run']
      /\ [libprotobuf : Files(run), absl : 0 .. run] \subseteq
           [libprotobuf : Files(run'), absl : 0 .. run']
  BY <1>2, <1>3
<1>5. /\ builds \in [Builds -> Artifacts(run)] /\ abseil \in [Places -> Installs(run)]
      /\ bin \in [Places -> [exe : Files(run), dll : Files(run), absl : 0 .. run]]
      /\ lib \in [Places -> [libprotobuf : Files(run), absl : 0 .. run]]
      /\ include \in [google : 0 .. run, absl : 0 .. run]
  BY TypeParts
<1>6. /\ builds' \in [Builds -> Artifacts(run')] /\ abseil' \in [Places -> Installs(run')]
      /\ bin' \in [Places -> [exe : Files(run'), dll : Files(run'), absl : 0 .. run']]
      /\ lib' \in [Places -> [libprotobuf : Files(run'), absl : 0 .. run']]
      /\ include' \in [google : 0 .. run', absl : 0 .. run']
  BY <1>1, <1>2, <1>3, <1>4, <1>5
<1> QED BY <1>1, <1>6 DEF TypeOK, Installs, Artifacts, Files

-----------------------------------------------------------------------------
(* The theorems.                                                           *)

LEMMA InitInd == Init => IndInv
<1> SUFFICES ASSUME Init PROVE IndInv
  OBVIOUS
<1>1. TypeOK
  BY RunsAssumption DEF Init, TypeOK, NoBuild, NoFile
<1>2. SettingsInv /\ TodoInv
  BY SettingsAssumption
     DEF Init, SettingsInv, TodoInv, AbseilStage, ProtoBufStage
<1>3. LogInv /\ BuiltInv /\ CopyInv
  BY DEF Init, LogInv, BuiltInv, CopyInv, AbseilStage, ProtoBufStage, CopyStage
<1>4. OrderInv
  BY DEF Init, OrderInv, AbseilStage, ProtoBufStage, CopyStage
<1> QED BY <1>1, <1>2, <1>3, <1>4 DEF IndInv

LEMMA NextInd == IndInv /\ [Next]_vars => IndInv'
<1> SUFFICES ASSUME IndInv, [Next]_vars PROVE IndInv'
  OBVIOUS
<1>0. TypeOK /\ TaskInv /\ TodoInv
  BY DEF IndInv, TaskInv
<1> SUFFICES TypeOK' /\ TaskInv'
  BY DEF IndInv, TaskInv
<1>1. CASE AbseilPrepare \/ AbseilConfigure \/ AbseilBuild \/ AbseilInstall
  <2>1. TypeOK'
    BY <1>0, <1>1, AbseilType
  <2>2. UNCHANGED <<run, settings, builds>> /\ pc \in AbseilStage /\ todo # <<>>
    BY <1>0, <1>1 DEF AbseilPrepare, AbseilConfigure, AbseilBuild, AbseilInstall, AbseilStage,
                      TodoInv, ProtoBufStage
  <2>3. \/ \E result \in {"PASSED", "FAILED"} : EndTask(result, "abseil")
        \/ pc' \in AbseilStage /\ UNCHANGED <<todo, log>>
    BY <1>1 DEF AbseilPrepare, AbseilConfigure, AbseilBuild, AbseilInstall, AbseilStage
  <2>4. TaskInv'
    BY <1>0, <2>2, <2>3, AbseilEnds, TaskGoesOn
  <2> QED BY <2>1, <2>4
<1>2. CASE ProtoBufPrepare \/ ProtoBufConfigure \/ ProtoBufBuild
  <2>1. TypeOK' /\ \A t \in Builds : t # Task => builds'[t] = builds[t]
    BY <1>0, <1>2, ProtoBufType
  <2>2. UNCHANGED <<run, settings>> /\ pc \in ProtoBufStage /\ todo # <<>>
    BY <1>0, <1>2 DEF ProtoBufPrepare, ProtoBufConfigure, ProtoBufBuild, AbseilStage,
                      TodoInv, ProtoBufStage
  <2>3. \/ EndTask("FAILED", "protobuf")
        \/ EndTask("PASSED", "protobuf") /\ builds'[Task] = [library |-> run, exe |-> run]
        \/ pc' \in ProtoBufStage /\ UNCHANGED <<todo, log>>
    <3>1. Task \in Builds /\ DOMAIN builds = Builds
      BY <1>0, <2>2, BuildTask, TypeParts
    <3> QED BY <1>2, <3>1 DEF ProtoBufPrepare, ProtoBufConfigure, ProtoBufBuild, ProtoBufStage
  <2>4. TaskInv'
    BY <1>0, <2>1, <2>2, <2>3, ProtoBufEnds, TaskGoesOn
  <2> QED BY <2>1, <2>4
<1>3. CASE ChooseArchitecture
  <2>1. TypeOK'
    BY <1>0, <1>3 DEF ChooseArchitecture, TypeOK
  <2> QED BY <1>0, <1>3, <2>1, ChooseArchitectureInv
<1>4. CASE CopyBinFiles \/ CopyLibFiles \/ CopyHeaderFiles
  BY <1>0, <1>4, CopyType, CopyBinFilesInv, CopyLibFilesInv, CopyHeaderFilesInv
<1>5. CASE BuildComplete
  <2>1. TypeOK'
    BY <1>0, <1>5 DEF BuildComplete, TypeOK
  <2> QED BY <1>0, <1>5, <2>1, BuildCompleteInv
<1>6. ASSUME NEW s \in Settings, StartScript(s)
      PROVE  TypeOK' /\ TaskInv'
  BY <1>0, <1>6, StartScriptType, StartScriptInv
<1>7. CASE UNCHANGED vars
  <2>1. TypeOK' /\ SettingsInv' /\ TodoInv' /\ LogInv' /\ BuiltInv'
    BY <1>7 DEF vars, IndInv, TypeOK, SettingsInv, TodoInv, LogInv, BuiltInv, Injective
  <2>2. CopyInv' /\ OrderInv'
    BY <1>7 DEF vars, IndInv, CopyInv, DllPassed, OrderInv, Logged, Left
  <2> QED BY <2>1, <2>2 DEF TaskInv
<1> QED BY <1>1, <1>2, <1>3, <1>4, <1>5, <1>6, <1>7 DEF Next, Script

(* The invariant holds of every run of the script, whatever the flags are  *)
(* and whichever commands and copies fail.                                 *)
THEOREM Inductive == Spec => []IndInv
<1> QED BY InitInd, NextInd, PTL DEF Spec

(* No stamp in a build directory or in the output tree is younger than the *)
(* run, and every directory entry has its type.                            *)
THEOREM TypeCorrect == Spec => []TypeOK
<1>1. IndInv => TypeOK
  BY DEF IndInv
<1> QED BY <1>1, Inductive, PTL

(* A configuration that result.txt calls PASSED has been built by this run *)
(* and is not touched again: later tasks are other tasks.                  *)
THEOREM PassedStaysBuilt == Spec => []PassedIsBuilt
<1>1. IndInv => PassedIsBuilt
  <2> SUFFICES ASSUME IndInv, NEW t \in Builds, "PASSED" \in Results(t)
               PROVE  builds[t] = [library |-> run, exe |-> run]
    BY DEF PassedIsBuilt
  <2>1. PICK i \in DOMAIN log : log[i].task = t /\ log[i].result = "PASSED"
    BY DEF Results
  <2>2. DOMAIN log = 1 .. Len(log)
    BY DEF IndInv, LogInv
  <2> QED BY <2>1, <2>2 DEF IndInv, BuiltInv
<1> QED BY <1>1, Inductive, PTL

(* Whatever fails, result.txt ends with one line for every task, in order. *)
THEOREM AllTasksLogged == Spec => []EveryTaskLogged
<1>1. IndInv => EveryTaskLogged
  <2> SUFFICES ASSUME IndInv, pc = "complete"
               PROVE  LET wanted == ProtoBufTasks(settings.BUILD_ARCHITECTURE) \o Copies
                          tasks  == [i \in DOMAIN log |-> log[i].task] IN
                      tasks \in {wanted, AbseilTasks(settings.BUILD_ARCHITECTURE) \o wanted}
    BY DEF EveryTaskLogged
  <2>1. Logged \in Seq(Tasks) /\ DOMAIN log = 1 .. Len(log)
    BY LoggedType DEF IndInv, LogInv
  <2>2. Left = <<>>
    BY DEF Left, AbseilStage, ProtoBufStage
  <2>3. Logged \o Left = Logged
    BY <2>1, <2>2
  <2>4. Logged = [i \in DOMAIN log |-> log[i].task]
    BY <2>1 DEF Logged
  <2> QED BY <2>3, <2>4 DEF IndInv, OrderInv, CopyStage
<1> QED BY <1>1, Inductive, PTL

(* The DLL, its import library and protoc.exe in the output tree come from *)
(* the same DLL build of this run, if that passed and was copied.          *)
THEOREM OutputsMatch == Spec => []DllOutputsMatch
<1>1. IndInv => DllOutputsMatch
  <2> SUFFICES ASSUME IndInv, NEW p \in Places, pc = "complete",
                      <<"bin", p>> \notin lost, <<"lib", p>> \notin lost,
                      "PASSED" \in Results(ProtoBuf(p[1], p[2], "DLL"))
               PROVE  {bin[p].exe, bin[p].dll, lib[p].libprotobuf} = {File("DLL", run)}
    BY DEF DllOutputsMatch
  <2>1. DOMAIN log = 1 .. Len(log)
    BY DEF IndInv, LogInv
  <2>2. DllPassed(p)
    BY <2>1 DEF Results, DllPassed
  <2> QED BY <2>2 DEF IndInv, CopyInv, CopyStage
<1> QED BY <1>1, Inductive, PTL

(* The cleaning, the failure or the success of one configuration changes   *)
(* no other configuration's build directory.                               *)
THEOREM TasksIndependent == Spec => BuildsIndependent
<1>1. IndInv /\ [Next]_vars =>
        [\A t \in Builds : builds'[t] # builds[t] => todo # <<>> /\ t = Head(todo)]_vars
  <2> SUFFICES ASSUME IndInv, Next, NEW t \in Builds, builds'[t] # builds[t]
               PROVE  todo # <<>> /\ t = Head(todo)
    BY DEF vars
  <2>1. CASE ProtoBufPrepare \/ ProtoBufConfigure \/ ProtoBufBuild
    <3>1. t = Task
      BY <2>1, ProtoBufType DEF IndInv
    <3>2. todo # <<>>
      BY <2>1 DEF ProtoBufPrepare, ProtoBufConfigure, ProtoBufBuild, IndInv, TodoInv,
                  AbseilStage, ProtoBufStage
    <3> QED BY <3>1, <3>2 DEF Task
  <2>2. CASE UNCHANGED builds
    BY <2>2
  <2> QED BY <2>1, <2>2 DEF Next, Script, AbseilPrepare, AbseilConfigure, AbseilBuild,
               AbseilInstall, ChooseArchitecture, CopyBinFiles, CopyLibFiles, CopyHeaderFiles,
               BuildComplete, StartScript
<1> QED BY <1>1, Inductive, PTL DEF Spec, BuildsIndependent

=============================================================================
