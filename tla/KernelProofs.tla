---------------------------- MODULE KernelProofs ----------------------------
(***************************************************************************)
(* The crypto kernel for any types, any number of test cases, random tests *)
(* and objects, with a failure wherever one can happen.                    *)
(***************************************************************************)
EXTENDS CryptoKernel, TLAPS

Entries == {Entry(t) : t \in Types}

IsListed(kind, id) == \E i \in 1..Len(type_list[kind]) : type_list[kind][i].id = id

ListsOK ==
    /\ type_list \in [TypeKinds -> Seq(Entries)]
    /\ \A kind \in TypeKinds : \A i \in 1..Len(type_list[kind]) :
         /\ type_list[kind][i].type.kind = kind
         /\ PassesAll(type_list[kind][i].type, type_list[kind][i].type.cases)
         /\ \A j \in 1..Len(type_list[kind]) : type_list[kind][i].id = type_list[kind][j].id => i = j

ObjectsOK ==
    /\ \A o \in objects : o.name \in Objects /\ o.type \in Types /\ PassesAll(o.type, o.type.cases)
    /\ \A o, p \in objects : o.name = p.name => o = p

(* The test in progress: what comes before its place has passed.           *)
PhaseOK(t, data, case, phase, held) ==
    /\ phase \in Comparing \cup {"alloc"} =>
         /\ data # <<>>
         /\ \A i \in 1..Len(data) : i < case => data[i] \in t.passes
         /\ case > Len(data) + 1 => "random" \in t.passes
         /\ case <= Len(data) + IF t.kind = "auth" THEN 0 ELSE NUM_RAND_TESTS
    /\ phase = "alloc" => case <= Len(data) + 1 /\ held < t.blocks
    /\ phase \in {"encrypt", "decrypt"} => t.kind = "cipher" /\ case <= Len(data)
    /\ phase = "compute" => t.kind = "auth"
    /\ phase = "random" => t.kind = "cipher" /\ case > Len(data)
    /\ phase \in Comparing => held = t.blocks
    /\ phase \in {"off", "passed", "failed"} => held = 0
    /\ phase = "passed" => PassesAll(t, data)

TestOK ==
    /\ test = Testing(test.type, test.data, test.case, test.phase, test.held)
    /\ test.type \in Types
    /\ test.data = <<>> \/ test.data \in {t.cases : t \in Types}
    /\ test.case \in Nat \ {0}
    /\ test.phase \in Phases
    /\ test.held \in 0..test.type.blocks
    /\ PhaseOK(test.type, test.data, test.case, test.phase, test.held)

(* The call in progress and the test it runs.                              *)
CallShape(c) ==
    /\ c = Calling(c.op, c.pos, c.replace)
    /\ c.op \in {"none", "init", "status", "srtp", "load", "replace"}
    /\ c.pos \in Nat \ {0}
    /\ c.replace \in BOOLEAN

CallOK ==
    /\ CallShape(call)
    /\ call.op \in {"none", "srtp"} => test.phase = "off"
    /\ call.op = "init" =>
         /\ ~ secure /\ call.pos \in 1..InitDone /\ ~ call.replace
         /\ test.phase = "off" \/ (call.pos \in InitTypes /\ test.type = InitType(call.pos) /\ test.data = test.type.cases)
    /\ call.op = "status" =>
         test.phase = "off" \/ (call.pos <= AllListed /\ test.type = ListedType(call.pos) /\ test.data = test.type.cases)
    /\ call.op \in {"status", "srtp"} => secure
    /\ call.op = "load" => test.phase # "off" /\ test.data = test.type.cases
    /\ call.op = "replace" =>
         /\ test.phase # "off"
         /\ call.pos \in 1..Len(type_list[test.type.kind])
         /\ type_list[test.type.kind][call.pos].id = test.type.id
         /\ test.data = type_list[test.type.kind][call.pos].type.cases
         /\ PassesAll(test.type, test.type.cases)

(* What srtp_init found and what it has done so far.                       *)
AskedOK ==
    /\ asked = Asked(asked.clean, asked.faulted, asked.answer)
    /\ asked.clean \in BOOLEAN /\ asked.faulted \in BOOLEAN
    /\ asked.answer \in {"none", "pending", "ok", "fail"}
    /\ asked.answer = "pending" <=> call.op \in {"init", "status", "srtp"}
    /\ call.op \in {"init", "status"} /\ test.phase = "failed" => asked.faulted
    /\ InitNeedsCleanKernel
    /\ exited \in BOOLEAN

ProgressOK ==
    /\ modules # {} => "crypto kernel" \in modules
    /\ secure \in BOOLEAN
    /\ secure \/ (call.op = "init" /\ call.pos # 1) => modules # {}
    /\ secure => \A n \in InitTypes : IsListed(InitType(n).kind, InitType(n).id)
    /\ call.op = "init" => \A n \in InitTypes : n < call.pos => IsListed(InitType(n).kind, InitType(n).id)
    /\ call.op = "init" /\ asked.clean =>
         /\ modules = {InitModule(n) : n \in {m \in InitModules : m < call.pos}}
         /\ \A n \in InitTypes : n >= call.pos => ~ IsListed(InitType(n).kind, InitType(n).id)
    /\ call.op = "init" /\ ~ asked.clean =>
         \/ call.pos = 1 /\ modules # {}
         \/ \E n \in InitTypes : n >= call.pos /\ IsListed(InitType(n).kind, InitType(n).id)
    /\ call.op \in {"status", "srtp"} => (asked.clean <=> "srtp" \notin modules)

KernelInv ==
    /\ ListsOK
    /\ ObjectsOK
    /\ TestOK
    /\ CallOK
    /\ AskedOK
    /\ ProgressOK
    /\ KernelMemoryIsOwned

(* What a step does to an entry that stays: ReplacementIsCompatible.       *)
Compatible ==
    \A kind \in TypeKinds : \A i \in 1..Len(type_list[kind]), j \in 1..Len(type_list'[kind]) :
        type_list[kind][i].id = type_list'[kind][j].id =>
            PassesAll(type_list'[kind][j].type, type_list[kind][i].type.cases)

KernelKeeps == KernelInv' /\ Compatible

----------------------------------------------------------------------------
(* Steps that leave a part alone.                                          *)

LEMMA ListsFrame == ASSUME ListsOK, type_list' = type_list PROVE ListsOK' /\ Compatible
<1>1. ListsOK' BY DEF ListsOK
<1>2. Compatible BY Zenon DEF ListsOK, Compatible
<1>3. QED BY Zenon, <1>1, <1>2

LEMMA ObjectsFrame == ASSUME ObjectsOK, objects' = objects PROVE ObjectsOK'
BY Zenon DEF ObjectsOK

LEMMA TestFrame == ASSUME TestOK, test' = test PROVE TestOK'
BY Zenon DEF TestOK

LEMMA InListFrame ==
    ASSUME type_list' = type_list, NEW kind, NEW id PROVE IsListed(kind, id)' <=> IsListed(kind, id)
BY Zenon DEF IsListed

LEMMA ProgressIdle ==
    ASSUME ProgressOK, type_list' = type_list, modules' = modules, secure' = secure,
           call'.op \in {"none", "load", "replace"}
    PROVE ProgressOK'
<1>1. \A kind, id : IsListed(kind, id)' <=> IsListed(kind, id) BY Zenon, InListFrame
<1>2. call'.op # "init" /\ call'.op \notin {"status", "srtp"} BY Zenon
<1>3. QED BY <1>1, <1>2, Zenon DEF ProgressOK

LEMMA NodesFrame == ASSUME type_list' = type_list, modules' = modules PROVE Nodes' = Nodes
BY Zenon DEF Nodes, ListNodes

LEMMA MemoryFrame ==
    ASSUME KernelMemoryIsOwned, type_list' = type_list, modules' = modules, objects' = objects,
           memory' = memory, test'.held = test.held
    PROVE KernelMemoryIsOwned'
<1>1. Nodes' = Nodes BY Zenon, NodesFrame
<1>2. QED BY Zenon, <1>1 DEF KernelMemoryIsOwned

(* The pieces of memory have different names.                              *)
LEMMA NodeNames ==
    ASSUME NEW k \in TypeKinds \cup {"module"}, NEW id, NEW n PROVE Node(k, id) \notin UnderTest(n)
BY Zenon DEF Node, UnderTest, TypeKinds

LEMMA NodesApart ==
    ASSUME NEW n, NEW o
    PROVE /\ Nodes \cap UnderTest(n) = {}
          /\ Nodes \cap Pieces(o) = {}
          /\ UnderTest(n) \cap Pieces(o) = {}
<1>1. \A p \in Nodes : p[1] \in TypeKinds \cup {"module"} BY DEF Nodes, ListNodes, Node, TypeKinds
<1>2. \A p \in UnderTest(n) : p[1] = "test" BY DEF UnderTest
<1>3. \A p \in Pieces(o) : p[1] = "object" BY DEF Pieces
<1>4. QED BY Zenon, <1>1, <1>2, <1>3 DEF TypeKinds

LEMMA UnderTestNone == UnderTest(0) = {}
BY DEF UnderTest

----------------------------------------------------------------------------
(* The self-tests.                                                         *)

LEMMA CasesAreSequences ==
    ASSUME NEW t \in Types PROVE Len(t.cases) \in Nat /\ t.blocks \in Nat \ {0} /\ t.kind \in TypeKinds
<1> DEFINE S == {t.cases[i] : i \in 1..Len(t.cases)}
<1>1. t.cases \in Seq(S) BY Zenon, KernelAssumption
<1> HIDE DEF S
<1>2. Len(t.cases) \in Nat BY <1>1
<1>3. QED BY Zenon, <1>2, KernelAssumption

LEMMA DataLength == ASSUME TestOK PROVE Len(test.data) \in Nat
<1>1. CASE test.data = <<>> BY <1>1
<1>2. CASE test.data \in {t.cases : t \in Types} BY Zenon, <1>2, CasesAreSequences
<1>3. QED BY Zenon, <1>1, <1>2 DEF TestOK

Running(t, data) ==
    /\ t \in Types
    /\ data = <<>> \/ data \in {u.cases : u \in Types}

Started ==
    /\ TestOK'
    /\ test'.held = 0
    /\ test'.phase \in {"alloc", "failed"}
    /\ test'.phase = "failed" => test'.data = <<>>

LEMMA StartOK ==
    ASSUME NEW t, NEW data, Running(t, data), test' = Start(t, data)
    PROVE Started /\ test'.type = t /\ test'.data = data
<1> DEFINE phase == IF data = <<>> THEN "failed" ELSE "alloc"
<1>0. t.blocks \in Nat \ {0} /\ t.kind \in TypeKinds /\ NUM_RAND_TESTS \in Nat \ {0}
  BY Zenon, CasesAreSequences, KernelAssumption DEF Running
<1>a. Len(data) \in Nat
  <2>1. CASE data = <<>> BY Zenon, <2>1
  <2>2. CASE data # <<>> BY Zenon, <2>2, CasesAreSequences DEF Running
  <2>3. QED BY Zenon, <2>1, <2>2
<1>b. data # <<>> => Len(data) >= 1
  <2>1. SUFFICES ASSUME data # <<>> PROVE Len(data) >= 1 BY Zenon
  <2>2. PICK u \in Types : data = u.cases BY Zenon, <2>1 DEF Running
  <2>3. data \in Seq({u.cases[i] : i \in 1..Len(u.cases)}) BY Zenon, <2>2, KernelAssumption
  <2>4. QED BY <2>1, <2>3, <1>a
<1>1. test' = Testing(t, data, 1, phase, 0) BY Zenon DEF Start
<1>2. /\ test'.type = t /\ test'.data = data /\ test'.case = 1 /\ test'.phase = phase
      /\ test'.held = 0
  BY <1>1 DEF Testing
<1>3. PhaseOK(t, data, 1, phase, 0)
  BY <1>0, <1>a, <1>b DEF PhaseOK, Comparing, TypeKinds
<1>4. test'.phase \in {"alloc", "failed"} /\ (test'.phase = "failed" => test'.data = <<>>)
  BY Zenon, <1>2
<1>5. TestOK'
  <2>1. test' = Testing(test'.type, test'.data, test'.case, test'.phase, test'.held)
    BY Zenon, <1>1, <1>2
  <2>2. test'.phase \in Phases BY Zenon, <1>4 DEF Phases
  <2>3. test'.held \in 0..test'.type.blocks BY <1>2, <1>0
  <2>4. PhaseOK(test'.type, test'.data, test'.case, test'.phase, test'.held) BY Zenon, <1>2, <1>3
  <2>5. QED BY <2>1, <2>2, <2>3, <2>4, <1>2 DEF TestOK, Running
<1>6. QED BY Zenon, <1>2, <1>4, <1>5 DEF Started

(* A step of the test in progress.                                         *)
InStep ==
    /\ InTest
    /\ test.phase \in Comparing \cup {"alloc"}
    /\ test'.phase # "off"
    /\ test'.type = test.type
    /\ test'.data = test.data

LEMMA TestStepCall == ASSUME CallOK, InStep PROVE CallOK'
<1>1. test.phase # "off" BY Zenon DEF InStep, Comparing
<1>2. AllListed' = AllListed /\ ListedType(call.pos)' = ListedType(call.pos)
  BY Zenon DEF InStep, InTest, AllListed, ListedType
<1>3. QED BY Zenon, <1>1, <1>2 DEF CallOK, InStep, InTest

LEMMA TestStepProgress ==
    ASSUME ProgressOK, InStep, asked'.clean = asked.clean PROVE ProgressOK'
<1>1. \A kind, id : IsListed(kind, id)' <=> IsListed(kind, id) BY Zenon, InListFrame DEF InStep, InTest
<1>2. QED BY Zenon, <1>1 DEF ProgressOK, InStep, InTest

LEMMA PhasePieces ==
    ASSUME KernelMemoryIsOwned, InStep, test'.held = 0, memory' = memory \ UnderTest(test.held)
    PROVE KernelMemoryIsOwned'
<1>1. Nodes' = Nodes /\ objects' = objects BY Zenon, NodesFrame DEF InStep, InTest
<1>2. UnderTest(test'.held) = {} BY Zenon, UnderTestNone
<1>3. Nodes \cap UnderTest(test.held) = {} BY Zenon, NodesApart
<1>4. (UNION {Pieces(o) : o \in objects}) \cap UnderTest(test.held) = {}
  <2>1. \A o \in objects : Pieces(o) \cap UnderTest(test.held) = {} BY Zenon, NodesApart
  <2>2. QED BY Zenon, <2>1
<1>5. memory' = Nodes \cup (UNION {Pieces(o) : o \in objects})
  BY Zenon, <1>3, <1>4 DEF KernelMemoryIsOwned
<1>6. QED BY Zenon, <1>1, <1>2, <1>5 DEF KernelMemoryIsOwned

LEMMA TestAllocKeeps == ASSUME KernelInv, TestAlloc PROVE KernelKeeps
<1> DEFINE n == test.held + 1
           phase == IF n = test.type.blocks THEN First(test.type, test.data, test.case) ELSE "alloc"
<1>0. ListsOK /\ ObjectsOK /\ TestOK /\ CallOK /\ AskedOK /\ ProgressOK /\ KernelMemoryIsOwned
  BY Zenon DEF KernelInv
<1>a. test.type.blocks \in Nat \ {0} /\ test.type.kind \in TypeKinds BY Zenon, <1>0, CasesAreSequences DEF TestOK
<1>b. Len(test.data) \in Nat /\ NUM_RAND_TESTS \in Nat \ {0} BY Zenon, <1>0, DataLength, KernelAssumption
<1>c. test.phase = "alloc" /\ test.held \in Nat /\ test.held < test.type.blocks /\ test.case \in Nat \ {0}
  BY <1>0, <1>a DEF TestAlloc, TestOK, PhaseOK
<1>1. test' = Testing(test.type, test.data, test.case, phase, n) BY Zenon DEF TestAlloc
<1>2. /\ test'.type = test.type /\ test'.data = test.data /\ test'.case = test.case
      /\ test'.phase = phase /\ test'.held = n
  BY Zenon, <1>1 DEF Testing
<1>3. phase \in Comparing \cup {"alloc"} BY Zenon DEF First, Comparing
<1>4. PhaseOK(test.type, test.data, test.case, test.phase, test.held) BY Zenon, <1>0 DEF TestOK
<1>5. PhaseOK(test.type, test.data, test.case, phase, n)
  <2>1. CASE n # test.type.blocks
    <3>1. phase = "alloc" /\ n < test.type.blocks BY <2>1, <1>a, <1>c
    <3>2. QED BY Zenon, <3>1, <1>c, <1>4 DEF PhaseOK, Comparing
  <2>2. CASE n = test.type.blocks /\ test.type.kind = "auth"
    <3>1. phase = "compute" BY Zenon, <2>2 DEF First
    <3>2. QED BY Zenon, <3>1, <2>2, <1>c, <1>4 DEF PhaseOK, Comparing
  <2>3. CASE n = test.type.blocks /\ test.type.kind = "cipher" /\ test.case <= Len(test.data)
    <3>1. phase = "encrypt" BY Zenon, <2>3 DEF First
    <3>2. QED BY Zenon, <3>1, <2>3, <1>c, <1>4 DEF PhaseOK, Comparing
  <2>4. CASE n = test.type.blocks /\ test.type.kind = "cipher" /\ ~ (test.case <= Len(test.data))
    <3>1. phase = "random" BY Zenon, <2>4 DEF First
    <3>2. QED BY <3>1, <2>4, <1>b, <1>c, <1>4 DEF PhaseOK, Comparing
  <2>5. QED BY Zenon, <2>1, <2>2, <2>3, <2>4, <1>a DEF TypeKinds
<1>6. TestOK'
  <2>1. test' = Testing(test'.type, test'.data, test'.case, test'.phase, test'.held) BY Zenon, <1>1, <1>2
  <2>2. test'.phase \in Phases BY Zenon, <1>2, <1>3 DEF Phases
  <2>3. test'.held \in 0..test'.type.blocks BY <1>2, <1>a, <1>c
  <2>4. PhaseOK(test'.type, test'.data, test'.case, test'.phase, test'.held) BY Zenon, <1>2, <1>5
  <2>5. QED BY Zenon, <2>1, <2>2, <2>3, <2>4, <1>2, <1>0 DEF TestOK
<1>7. InStep BY Zenon, <1>2, <1>3, <1>c DEF InStep, TestAlloc, Comparing
<1>8. asked' = asked /\ InTest BY Zenon DEF TestAlloc
<1>9. CallOK' /\ ProgressOK' BY Zenon, <1>0, <1>7, <1>8, TestStepCall, TestStepProgress
<1>10. ListsOK' /\ Compatible /\ ObjectsOK' BY Zenon, <1>0, <1>8, ListsFrame, ObjectsFrame DEF InTest
<1>11. AskedOK' BY Zenon, <1>0, <1>8, <1>2, <1>3 DEF AskedOK, InTest, InitNeedsCleanKernel, Comparing
<1>12. KernelMemoryIsOwned'
  <2>1. Nodes' = Nodes /\ objects' = objects BY Zenon, <1>8, NodesFrame DEF InTest
  <2>2. UnderTest(test.held) \subseteq UnderTest(n) BY <1>c DEF UnderTest
  <2>3. memory' = memory \cup UnderTest(n) BY Zenon DEF TestAlloc
  <2>4. QED BY Zenon, <2>1, <2>2, <2>3, <1>2, <1>0 DEF KernelMemoryIsOwned
<1>13. QED BY Zenon, <1>6, <1>9, <1>10, <1>11, <1>12 DEF KernelKeeps, KernelInv

LEMMA TestFailsKeeps ==
    ASSUME KernelInv, TestFails, test.phase \in Comparing \cup {"alloc"},
           asked'.clean = asked.clean, asked'.answer = asked.answer, asked'.faulted \in BOOLEAN,
           asked.faulted => asked'.faulted,
           asked' = Asked(asked'.clean, asked'.faulted, asked'.answer),
           call.op \in {"init", "status"} => asked'.faulted
    PROVE KernelKeeps
<1>0. ListsOK /\ ObjectsOK /\ TestOK /\ CallOK /\ AskedOK /\ ProgressOK /\ KernelMemoryIsOwned
  BY Zenon DEF KernelInv
<1>a. test.type.blocks \in Nat \ {0} BY Zenon, <1>0, CasesAreSequences DEF TestOK
<1>1. test' = Testing(test.type, test.data, test.case, "failed", 0) BY Zenon DEF TestFails
<1>2. /\ test'.type = test.type /\ test'.data = test.data /\ test'.case = test.case
      /\ test'.phase = "failed" /\ test'.held = 0
  BY Zenon, <1>1 DEF Testing
<1>5. PhaseOK(test.type, test.data, test.case, "failed", 0) BY Zenon DEF PhaseOK, Comparing
<1>6. TestOK'
  <2>1. test' = Testing(test'.type, test'.data, test'.case, test'.phase, test'.held) BY Zenon, <1>1, <1>2
  <2>2. test'.phase \in Phases BY Zenon, <1>2 DEF Phases
  <2>3. test'.held \in 0..test'.type.blocks BY <1>2, <1>a
  <2>4. PhaseOK(test'.type, test'.data, test'.case, test'.phase, test'.held) BY Zenon, <1>2, <1>5
  <2>5. QED BY Zenon, <2>1, <2>2, <2>3, <2>4, <1>2, <1>0 DEF TestOK
<1>8. InTest BY Zenon DEF TestFails
<1>7. InStep BY Zenon, <1>2, <1>8 DEF InStep
<1>9. CallOK' /\ ProgressOK' BY Zenon, <1>0, <1>7, TestStepCall, TestStepProgress
<1>10. ListsOK' /\ Compatible /\ ObjectsOK' BY Zenon, <1>0, <1>8, ListsFrame, ObjectsFrame DEF InTest
<1>11. AskedOK' BY Zenon, <1>0, <1>8, <1>2 DEF AskedOK, InTest, InitNeedsCleanKernel
<1>12. KernelMemoryIsOwned' BY Zenon, <1>0, <1>2, <1>7, PhasePieces DEF TestFails
<1>13. QED BY Zenon, <1>6, <1>9, <1>10, <1>11, <1>12 DEF KernelKeeps, KernelInv

LEMMA TestFaultsKeeps == ASSUME KernelInv, TestFaults PROVE KernelKeeps
<1>1. asked' = Asked(asked.clean, TRUE, asked.answer) BY Zenon DEF TestFaults
<1>2. asked'.clean = asked.clean /\ asked'.faulted = TRUE /\ asked'.answer = asked.answer
  BY Zenon, <1>1 DEF Asked
<1>3. QED BY Zenon, <1>1, <1>2, TestFailsKeeps DEF TestFaults

(* A test that passes so far passes what comes next.                       *)
LEMMA TestPassesKeeps == ASSUME KernelInv, TestPasses PROVE KernelKeeps
<1> DEFINE t == test.type
           m == Len(test.data)
           last == m + IF t.kind = "auth" THEN 0 ELSE NUM_RAND_TESTS
           case == IF test.phase = "encrypt" THEN test.case ELSE test.case + 1
           held == IF LastOfCase THEN 0 ELSE test.held
<1>0. ListsOK /\ ObjectsOK /\ TestOK /\ CallOK /\ AskedOK /\ ProgressOK /\ KernelMemoryIsOwned
  BY Zenon DEF KernelInv
<1>a. t.blocks \in Nat \ {0} /\ t.kind \in TypeKinds BY Zenon, <1>0, CasesAreSequences DEF TestOK
<1>b. m \in Nat /\ NUM_RAND_TESTS \in Nat \ {0} /\ test.case \in Nat \ {0}
  BY Zenon, <1>0, DataLength, KernelAssumption DEF TestOK
<1>c. test.phase \in Comparing /\ Works BY Zenon DEF TestPasses
<1>d. PhaseOK(t, test.data, test.case, test.phase, test.held) BY Zenon, <1>0 DEF TestOK
<1>e. /\ test.data # <<>>
      /\ \A i \in 1..m : i < test.case => test.data[i] \in t.passes
      /\ test.case > m + 1 => "random" \in t.passes
      /\ test.case <= last
      /\ test.held = t.blocks
  BY Zenon, <1>c, <1>d DEF PhaseOK
<1>f. /\ test.phase \in {"encrypt", "decrypt"} => t.kind = "cipher" /\ test.case <= m
      /\ test.phase = "compute" => t.kind = "auth"
      /\ test.phase = "random" => t.kind = "cipher" /\ test.case > m
  BY Zenon, <1>d DEF PhaseOK
<1>1. test' = Testing(t, test.data, case, NextPhase, held) BY Zenon DEF TestPasses
<1>2. /\ test'.type = t /\ test'.data = test.data /\ test'.case = case
      /\ test'.phase = NextPhase /\ test'.held = held
  BY Zenon, <1>1 DEF Testing
<1>3. memory' = IF LastOfCase THEN memory \ UnderTest(test.held) ELSE memory BY Zenon DEF TestPasses
<1>4. /\ NextPhase \in Comparing \cup {"alloc", "passed"}
      /\ PhaseOK(t, test.data, case, NextPhase, held)
      /\ case \in Nat \ {0}
      /\ held \in 0..t.blocks
  <2>1. CASE test.phase = "encrypt"
    <3>1. NextPhase = "decrypt" /\ case = test.case /\ test.case <= m BY Zenon, <2>1, <1>f DEF NextPhase
    <3>2. held = test.held BY <2>1, <3>1, <1>b DEF LastOfCase
    <3>3. PhaseOK(t, test.data, test.case, "decrypt", test.held)
      BY Zenon, <1>d, <2>1 DEF PhaseOK, Comparing
    <3>4. QED BY <3>1, <3>2, <3>3, <1>a, <1>b, <1>e DEF Comparing
  <2>2. CASE test.phase = "decrypt"
    <3>1. NextPhase = "alloc" /\ case = test.case + 1 /\ held = 0
      BY <2>2, <1>b, <1>f DEF NextPhase, LastCase, LastOfCase
    <3>2. test.data[test.case] \in t.passes BY Zenon, <1>c, <2>2 DEF Works
    <3>3. \A i \in 1..m : i < test.case + 1 => test.data[i] \in t.passes BY <3>2, <1>e, <1>b
    <3>4. test.case + 1 <= m + 1 /\ t.kind = "cipher" BY <2>2, <1>f, <1>b
    <3>5. PhaseOK(t, test.data, test.case + 1, "alloc", 0)
      <4> DEFINE d == test.case + 1
      <4>1. d <= m + NUM_RAND_TESTS /\ ~ (d > m + 1) /\ 0 < t.blocks /\ d \in Nat
        BY <3>4, <1>a, <1>b
      <4>2. \A i \in 1..m : i < d => test.data[i] \in t.passes BY Zenon, <3>3
      <4> HIDE DEF d
      <4>3. PhaseOK(t, test.data, d, "alloc", 0)
        <5>1. d <= m + IF t.kind = "auth" THEN 0 ELSE NUM_RAND_TESTS BY Zenon, <3>4, <4>1
        <5>2. d <= m + 1 BY <4>1, <1>b
        <5>3. QED BY Zenon, <4>1, <4>2, <5>1, <5>2, <1>e DEF PhaseOK, Comparing
      <4>4. QED BY Zenon, <4>3 DEF d
    <3>6. QED BY <3>1, <3>5, <1>a, <1>b
  <2>3. CASE test.phase = "compute"
    <3>0. t.kind = "auth" BY Zenon, <2>3, <1>f
    <3>a. LastOfCase BY Zenon, <2>3 DEF LastOfCase
    <3>b. last = m BY <3>0, <1>b
    <3>1. t.kind = "auth" /\ last = m /\ case = test.case + 1 /\ held = 0
      BY Zenon, <3>0, <3>a, <3>b, <2>3
    <3>2. test.data[test.case] \in t.passes BY Zenon, <1>c, <2>3 DEF Works
    <3>3. \A i \in 1..m : i < test.case + 1 => test.data[i] \in t.passes BY <3>2, <1>e, <1>b
    <3>4. CASE test.case = m
      <4>1. NextPhase = "passed" BY Zenon, <2>3, <3>1, <3>4, <1>b DEF NextPhase, LastCase
      <4>2. PassesAll(t, test.data) BY <3>1, <3>3, <3>4, <1>b, <1>e DEF PassesAll
      <4>3. PhaseOK(t, test.data, test.case + 1, "passed", 0) BY Zenon, <4>2 DEF PhaseOK, Comparing
      <4>4. QED BY <3>1, <4>1, <4>3, <1>a, <1>b
    <3>5. CASE test.case # m
      <4>1. NextPhase = "alloc" BY Zenon, <2>3, <3>1, <3>5, <1>b DEF NextPhase, LastCase
      <4>2. test.case + 1 <= m BY <3>1, <3>5, <1>b, <1>e
      <4>3. PhaseOK(t, test.data, test.case + 1, "alloc", 0)
        BY <3>1, <3>3, <4>2, <1>a, <1>b, <1>e DEF PhaseOK, Comparing
      <4>4. QED BY <3>1, <4>1, <4>3, <1>a, <1>b
    <3>6. QED BY Zenon, <3>4, <3>5
  <2>4. CASE test.phase = "random"
    <3>1. t.kind = "cipher" /\ last = m + NUM_RAND_TESTS /\ case = test.case + 1 /\ test.case > m
      BY Zenon, <2>4, <1>b, <1>f
    <3>2. "random" \in t.passes BY Zenon, <1>c, <2>4 DEF Works
    <3>3. \A i \in 1..m : test.data[i] \in t.passes BY <3>1, <1>e, <1>b
    <3>4. CASE test.case = last
      <4>1. NextPhase = "passed" /\ held = 0
        BY Zenon, <2>4, <3>1, <3>4, <1>b DEF NextPhase, LastCase, LastOfCase
      <4>2. PassesAll(t, test.data) BY Zenon, <3>2, <3>3, <1>e DEF PassesAll
      <4>3. PhaseOK(t, test.data, test.case + 1, "passed", 0) BY Zenon, <4>2 DEF PhaseOK, Comparing
      <4>4. QED BY <3>1, <4>1, <4>3, <1>a, <1>b
    <3>5. CASE test.case # last
      <4>1. NextPhase = "random" /\ held = test.held
        BY Zenon, <2>4, <3>1, <3>5, <1>b DEF NextPhase, LastCase, LastOfCase
      <4>2. test.case + 1 <= last BY <3>1, <3>5, <1>b, <1>e
      <4>3. PhaseOK(t, test.data, test.case + 1, "random", test.held)
        BY <3>1, <3>2, <3>3, <4>2, <1>a, <1>b, <1>e DEF PhaseOK, Comparing
      <4>4. QED BY <3>1, <4>1, <4>3, <1>a, <1>b, <1>e DEF Comparing
    <3>6. QED BY Zenon, <3>4, <3>5
  <2>5. QED BY Zenon, <2>1, <2>2, <2>3, <2>4, <1>c DEF Comparing
<1> HIDE DEF case, held, last
<1>6. TestOK'
  <2>1. test' = Testing(test'.type, test'.data, test'.case, test'.phase, test'.held) BY Zenon, <1>1, <1>2
  <2>2. test'.phase \in Phases BY Zenon, <1>2, <1>4 DEF Phases
  <2>3. test'.held \in 0..test'.type.blocks BY Zenon, <1>2, <1>4
  <2>4. PhaseOK(test'.type, test'.data, test'.case, test'.phase, test'.held) BY Zenon, <1>2, <1>4
  <2>5. QED BY Zenon, <2>1, <2>2, <2>3, <2>4, <1>2, <1>4, <1>0 DEF TestOK
<1>7. InStep BY Zenon, <1>2, <1>4, <1>c DEF InStep, TestPasses, Comparing
<1>8. asked' = asked /\ InTest BY Zenon DEF TestPasses
<1>9. CallOK' /\ ProgressOK' BY Zenon, <1>0, <1>7, <1>8, TestStepCall, TestStepProgress
<1>10. ListsOK' /\ Compatible /\ ObjectsOK' BY Zenon, <1>0, <1>8, ListsFrame, ObjectsFrame DEF InTest
<1>11. AskedOK' BY Zenon, <1>0, <1>8, <1>2, <1>4 DEF AskedOK, InTest, InitNeedsCleanKernel, Comparing
<1>12. KernelMemoryIsOwned'
  <2>1. CASE LastOfCase
    <3>1. test'.held = 0 /\ memory' = memory \ UnderTest(test.held) BY Zenon, <2>1, <1>2, <1>3 DEF held
    <3>2. QED BY Zenon, <3>1, <1>0, <1>7, PhasePieces
  <2>2. CASE ~ LastOfCase
    <3>1. test'.held = test.held /\ memory' = memory BY Zenon, <2>2, <1>2, <1>3 DEF held
    <3>2. QED BY Zenon, <3>1, <1>0, <1>8, MemoryFrame DEF InTest
  <2>3. QED BY Zenon, <2>1, <2>2
<1>13. QED BY Zenon, <1>6, <1>9, <1>10, <1>11, <1>12 DEF KernelKeeps, KernelInv

(* A listed type and a standard one pass the tests they are given: only    *)
(* the test of a load can find a result that differs.                      *)
LEMMA TestMismatchKeeps == ASSUME KernelInv, TestMismatch PROVE KernelKeeps
<1>0. TestOK /\ CallOK /\ ListsOK /\ AskedOK BY Zenon DEF KernelInv
<1>1. test.phase \in Comparing /\ ~ Works /\ TestFails /\ asked' = asked BY Zenon DEF TestMismatch
<1>2. ~ PassesAll(test.type, test.data)
  <2>1. PhaseOK(test.type, test.data, test.case, test.phase, test.held) BY Zenon, <1>0 DEF TestOK
  <2>2. Len(test.data) \in Nat /\ test.case \in Nat \ {0} BY Zenon, <1>0, DataLength DEF TestOK
  <2>3. CASE test.phase = "random"
    BY Zenon, <2>1, <2>3, <1>1 DEF PhaseOK, PassesAll, Works
  <2>4. CASE test.phase # "random"
    <3>1. test.case \in 1..Len(test.data)
      BY <2>1, <2>2, <2>4, <1>1 DEF PhaseOK, Comparing
    <3>2. QED BY Zenon, <2>4, <3>1, <1>1 DEF PassesAll, Works
  <2>5. QED BY Zenon, <2>3, <2>4
<1>3. call.op \notin {"init", "status"}
  <2>0. test.phase # "off" BY Zenon, <1>1 DEF Comparing
  <2>1. CASE call.op = "init"
    <3>1. call.pos \in InitTypes /\ test.type = InitType(call.pos) /\ test.data = test.type.cases
      BY Zenon, <2>0, <2>1, <1>0 DEF CallOK
    <3>2. PICK i \in 1..5 : InitType(call.pos) = Standard[i] BY <3>1 DEF InitTypes, InitType
    <3>3. QED BY Zenon, <3>1, <3>2, <1>2, KernelAssumption
  <2>2. CASE call.op = "status"
    <3>1. call.pos <= AllListed /\ test.type = ListedType(call.pos) /\ test.data = test.type.cases
      BY Zenon, <2>0, <2>2, <1>0 DEF CallOK
    <3>2. PassesAll(ListedType(call.pos), ListedType(call.pos).cases)
      <4>1. type_list["cipher"] \in Seq(Entries) /\ type_list["auth"] \in Seq(Entries)
        BY Zenon, <1>0 DEF ListsOK, TypeKinds
      <4>2. Len(type_list["cipher"]) \in Nat /\ Len(type_list["auth"]) \in Nat BY <4>1
      <4>3. call.pos \in Nat \ {0} BY Zenon, <1>0 DEF CallOK, CallShape
      <4>4. \A kind \in TypeKinds : \A i \in 1..Len(type_list[kind]) :
              PassesAll(type_list[kind][i].type, type_list[kind][i].type.cases)
        BY Zenon, <1>0 DEF ListsOK
      <4>5. CASE call.pos <= Len(type_list["cipher"])
        <5>1. ListedType(call.pos) = type_list["cipher"][call.pos].type BY Zenon, <4>5 DEF ListedType
        <5>2. call.pos \in 1..Len(type_list["cipher"]) BY <4>2, <4>3, <4>5
        <5>3. QED BY Zenon, <4>4, <5>1, <5>2 DEF TypeKinds
      <4>6. CASE ~ (call.pos <= Len(type_list["cipher"]))
        <5> DEFINE n == call.pos - Len(type_list["cipher"])
        <5>1. ListedType(call.pos) = type_list["auth"][n].type BY Zenon, <4>6 DEF ListedType
        <5>a. call.pos <= Len(type_list["cipher"]) + Len(type_list["auth"]) BY Zenon, <3>1 DEF AllListed
        <5>b. \A a, b, p \in Nat : p <= a + b /\ ~ (p <= a) => p - a \in 1..b OBVIOUS
        <5>2. n \in 1..Len(type_list["auth"]) BY Zenon, <5>a, <5>b, <4>2, <4>3, <4>6
        <5>3. QED BY Zenon, <4>4, <5>1, <5>2 DEF TypeKinds
      <4>7. QED BY Zenon, <4>5, <4>6
    <3>3. QED BY Zenon, <3>1, <3>2, <1>2
  <2>3. QED BY Zenon, <2>1, <2>2
<1>4. QED BY Zenon, <1>0, <1>1, <1>3, TestFailsKeeps DEF AskedOK

LEMMA TestStepKeeps == ASSUME KernelInv, TestStep PROVE KernelKeeps
BY Zenon, TestAllocKeeps, TestPassesKeeps, TestMismatchKeeps, TestFaultsKeeps DEF TestStep

----------------------------------------------------------------------------
(* srtp_init, and what ends a call.                                        *)

Called(c, op, pos, replace) == c.op = op /\ c.pos = pos /\ c.replace = replace

LEMMA CallingShape ==
    ASSUME NEW op \in {"none", "init", "status", "srtp", "load", "replace"}, NEW pos \in Nat \ {0},
           NEW replace \in BOOLEAN, NEW c, c = Calling(op, pos, replace)
    PROVE CallShape(c) /\ Called(c, op, pos, replace)
<1>1. c.op = op /\ c.pos = pos /\ c.replace = replace BY Zenon DEF Calling
<1>2. c = Calling(c.op, c.pos, c.replace) BY Zenon, <1>1
<1>3. QED BY <1>1, <1>2, Zenon DEF CallShape, Called

LEMMA OneIsPositive == 1 \in Nat \ {0} /\ FALSE \in BOOLEAN /\ TRUE \in BOOLEAN
OBVIOUS

LEMMA IdleTest == ASSUME test' = NoTest PROVE TestOK' /\ test'.phase = "off" /\ test'.held = 0
<1>1. /\ test'.type = Standard[1] /\ test'.data = <<>> /\ test'.case = 1 /\ test'.phase = "off"
      /\ test'.held = 0
  BY Zenon DEF NoTest, Testing
<1>2. Standard[1] \in Types BY DEF Types
<1>3. test'.held \in 0..test'.type.blocks BY <1>1, <1>2, CasesAreSequences
<1>4. PhaseOK(test'.type, test'.data, test'.case, test'.phase, test'.held)
  BY Zenon, <1>1 DEF PhaseOK, Comparing
<1>5. test' = Testing(test'.type, test'.data, test'.case, test'.phase, test'.held)
  BY Zenon, <1>1 DEF NoTest
<1>6. QED BY <1>1, <1>2, <1>3, <1>4, <1>5 DEF TestOK, Phases

(* No test is in progress where none holds memory.                         *)
LEMMA NotHolding ==
    ASSUME TestOK, test.phase \in {"off", "passed", "failed"} PROVE test.held = 0
BY Zenon DEF TestOK, PhaseOK

IdleCall ==
    /\ call' = NoCall
    /\ test' = NoTest
    /\ UNCHANGED <<secure, exited, objects>>

(* A call that is over.  It was srtp_init's last, or not srtp_init.        *)
LEMMA CallOver == ASSUME IdleCall PROVE CallOK' /\ call'.op = "none" /\ TestOK' /\ test'.held = 0
<1>1. TestOK' /\ test'.phase = "off" /\ test'.held = 0 BY Zenon, IdleTest DEF IdleCall
<1>2. CallShape(call') /\ Called(call', "none", 1, FALSE)
  BY Zenon, CallingShape, OneIsPositive DEF IdleCall, NoCall
<1>3. QED BY Zenon, <1>1, <1>2 DEF CallOK, Called

Answered(answer, fault) ==
    asked' = IF asked.answer = "pending" THEN Asked(asked.clean, asked.faulted \/ fault, answer)
             ELSE asked

LEMMA AnswerOK ==
    ASSUME AskedOK, NEW answer \in {"none", "ok", "fail"}, NEW fault \in BOOLEAN,
           Answered(answer, fault), IdleCall,
           asked.answer = "pending" /\ answer = "ok" => asked.clean,
           asked.answer = "pending" /\ answer = "fail" /\ asked.clean => asked.faulted \/ fault
    PROVE AskedOK'
<1>1. call'.op = "none" /\ exited' = exited BY Zenon, CallOver DEF IdleCall
<1>2. CASE asked.answer = "pending"
  <2>1. asked' = Asked(asked.clean, asked.faulted \/ fault, answer) BY Zenon, <1>2 DEF Answered
  <2>2. asked'.clean = asked.clean /\ asked'.faulted = (asked.faulted \/ fault) /\ asked'.answer = answer
    BY Zenon, <2>1 DEF Asked
  <2>3. asked' = Asked(asked'.clean, asked'.faulted, asked'.answer) BY Zenon, <2>1, <2>2
  <2>4. QED BY Zenon, <1>1, <1>2, <2>2, <2>3 DEF AskedOK, InitNeedsCleanKernel
<1>3. CASE asked.answer # "pending"
  <2>1. asked' = asked BY Zenon, <1>3 DEF Answered
  <2>2. QED BY Zenon, <1>1, <1>3, <2>1 DEF AskedOK, InitNeedsCleanKernel
<1>4. QED BY Zenon, <1>2, <1>3

(* A call that is refused leaves everything as it was.                     *)
LEMMA RefuseKeeps ==
    ASSUME KernelInv, NEW fault \in BOOLEAN, Refused(fault),
           test.phase \in {"off", "passed", "failed"},
           asked.answer = "pending" /\ asked.clean => asked.faulted \/ fault
    PROVE KernelKeeps
<1>0. ListsOK /\ ObjectsOK /\ TestOK /\ CallOK /\ AskedOK /\ ProgressOK /\ KernelMemoryIsOwned
  BY Zenon DEF KernelInv
<1>1. IdleCall /\ Answered("fail", fault) BY Zenon DEF Refused, Return, IdleCall, Answered
<1>2. type_list' = type_list /\ modules' = modules /\ memory' = memory /\ objects' = objects /\ secure' = secure
  BY Zenon DEF Refused, Return
<1>3. CallOK' /\ call'.op = "none" /\ TestOK' /\ test'.held = 0 BY Zenon, <1>1, CallOver
<1>4. AskedOK' BY Zenon, <1>0, <1>1, AnswerOK
<1>5. ListsOK' /\ Compatible /\ ObjectsOK' BY Zenon, <1>0, <1>2, ListsFrame, ObjectsFrame
<1>6. test.held = 0 BY Zenon, <1>0, NotHolding
<1>7. KernelMemoryIsOwned' BY Zenon, <1>0, <1>2, <1>3, <1>6, MemoryFrame
<1>8. ProgressOK' BY Zenon, <1>0, <1>2, <1>3, ProgressIdle
<1>9. QED BY Zenon, <1>3, <1>4, <1>5, <1>7, <1>8 DEF KernelKeeps, KernelInv

(* A debug module is added.                                                *)
LEMMA AddModuleMemory ==
    ASSUME KernelMemoryIsOwned, NEW name, AddModule(name), test'.held = test.held, objects' = objects
    PROVE KernelMemoryIsOwned'
<1>1. Nodes' = Nodes \cup {Node("module", name)} BY Zenon DEF AddModule, Nodes, ListNodes
<1>2. QED BY Zenon, <1>1 DEF KernelMemoryIsOwned, AddModule

LEMMA SrtpInitKeeps == ASSUME KernelInv, SrtpInit PROVE KernelKeeps
<1>0. ListsOK /\ ObjectsOK /\ TestOK /\ CallOK /\ AskedOK /\ ProgressOK /\ KernelMemoryIsOwned
  BY Zenon DEF KernelInv
<1>1. call.op = "none" /\ ~ exited /\ test.phase = "off" BY Zenon, <1>0 DEF SrtpInit, Ready, CallOK
<1>2. /\ UNCHANGED <<secure, type_list, modules, test, memory, objects, exited>>
      /\ call' = Calling(IF secure THEN "status" ELSE "init", 1, FALSE)
      /\ asked' = Asked(Clean, FALSE, "pending")
  BY Zenon DEF SrtpInit
<1>a. CallShape(call') /\ Called(call', IF secure THEN "status" ELSE "init", 1, FALSE)
  BY Zenon, <1>2, CallingShape, OneIsPositive
<1>3. call'.op = (IF secure THEN "status" ELSE "init") /\ call'.pos = 1 /\ ~ call'.replace
  BY Zenon, <1>a DEF Called
<1>4. asked'.clean = Clean /\ asked'.faulted = FALSE /\ asked'.answer = "pending" BY Zenon, <1>2 DEF Asked
<1>5. ListsOK' /\ Compatible /\ ObjectsOK' /\ TestOK' /\ KernelMemoryIsOwned'
  BY Zenon, <1>0, <1>2, ListsFrame, ObjectsFrame, TestFrame, MemoryFrame
<1>6. CallOK'
  <2>1. secure \in BOOLEAN BY Zenon, <1>0 DEF ProgressOK
  <2>2. 1 \in 1..InitDone BY DEF InitDone
  <2>3. QED BY Zenon, <1>1, <1>2, <1>3, <1>a, <2>1, <2>2 DEF CallOK
<1>7. AskedOK'
  <2>1. asked' = Asked(asked'.clean, asked'.faulted, asked'.answer) BY Zenon, <1>2, <1>4
  <2>2. Clean \in BOOLEAN BY Zenon DEF Clean, NewIds
  <2>3. QED BY Zenon, <1>0, <1>1, <1>2, <1>3, <1>4, <2>1, <2>2 DEF AskedOK, InitNeedsCleanKernel
<1>8. ProgressOK'
  <2>1. \A kind, id : IsListed(kind, id)' <=> IsListed(kind, id) BY Zenon, <1>2, InListFrame
  <2>2. secure \in BOOLEAN BY Zenon, <1>0 DEF ProgressOK
  <2>3. CASE secure
    <3>1. Clean <=> "srtp" \notin modules BY Zenon, <2>3 DEF Clean
    <3>2. QED BY Zenon, <1>0, <1>2, <1>3, <1>4, <2>1, <2>3, <3>1 DEF ProgressOK
  <2>4. CASE ~ secure
    <3>1. Clean <=> modules = {} /\ NewIds BY Zenon, <2>4 DEF Clean
    <3>2. NewIds <=> \A n \in InitTypes : ~ IsListed(InitType(n).kind, InitType(n).id)
      <4>1. \A n \in InitTypes : \E j \in 1..5 : InitType(n) = Standard[j] BY DEF InitTypes, InitType
      <4>2. \A j \in 1..5 : \E n \in InitTypes : InitType(n) = Standard[j]
        <5>1. /\ InitType(6) = Standard[1] /\ InitType(7) = Standard[2] /\ InitType(8) = Standard[3]
              /\ InitType(10) = Standard[4] /\ InitType(11) = Standard[5]
          BY DEF InitType
        <5>2. QED BY <5>1 DEF InitTypes
      <4>3. \A j \in 1..5 : Standard[j].kind \in TypeKinds BY Zenon, CasesAreSequences DEF Types
      <4>4. NewIds <=> \A j \in 1..5 : ~ IsListed(Standard[j].kind, Standard[j].id)
        BY Zenon, <4>3 DEF NewIds, IsListed
      <4>5. QED BY Zenon, <4>1, <4>2, <4>4
    <3>3. {m \in InitModules : m < 1} = {} BY DEF InitModules
    <3>4. {InitModule(n) : n \in {m \in InitModules : m < 1}} = {} BY Zenon, <3>3
    <3>5. \A n \in InitTypes : n >= 1 /\ ~ (n < 1) BY DEF InitTypes
    <3>6. call'.op = "init" /\ call'.pos = 1 BY Zenon, <1>3, <2>4
    <3>7. asked'.clean =>
            /\ modules' = {InitModule(n) : n \in {m \in InitModules : m < 1}}
            /\ \A n \in InitTypes : ~ IsListed(InitType(n).kind, InitType(n).id)'
      BY Zenon, <1>2, <1>4, <2>1, <3>1, <3>2, <3>4
    <3>8. ~ asked'.clean =>
            modules' # {} \/ \E n \in InitTypes : n >= 1 /\ IsListed(InitType(n).kind, InitType(n).id)'
      BY Zenon, <1>2, <1>4, <2>1, <3>1, <3>2, <3>5
    <3>9. QED BY Zenon, <1>0, <1>2, <2>4, <3>5, <3>6, <3>7, <3>8 DEF ProgressOK
  <2>5. QED BY Zenon, <2>2, <2>3, <2>4
<1>9. QED BY Zenon, <1>5, <1>6, <1>7, <1>8 DEF KernelKeeps, KernelInv

LEMMA InitNames ==
    /\ InitModule(1) = "crypto kernel"
    /\ \A n \in InitModules : InitModule(n) # "srtp"
    /\ \A m, n \in InitModules : InitModule(m) = InitModule(n) => m = n
<1>1. /\ InitModule(1) = "crypto kernel" /\ InitModule(2) = "auth func" /\ InitModule(3) = "cipher"
      /\ InitModule(4) = "stat test" /\ InitModule(5) = "alloc" /\ InitModule(9) = "aes icm"
      /\ InitModule(12) = "hmac sha-1"
  BY DEF InitModule
<1>2. \A n \in InitModules : InitModule(n) # "srtp" BY Zenon, <1>1 DEF InitModules
<1>3. ASSUME NEW m \in InitModules, NEW n \in InitModules, InitModule(m) = InitModule(n) PROVE m = n
  <2>1. CASE m = 1 BY Zenon, <1>1, <1>3, <2>1 DEF InitModules
  <2>2. CASE m = 2 BY Zenon, <1>1, <1>3, <2>2 DEF InitModules
  <2>3. CASE m = 3 BY Zenon, <1>1, <1>3, <2>3 DEF InitModules
  <2>4. CASE m = 4 BY Zenon, <1>1, <1>3, <2>4 DEF InitModules
  <2>5. CASE m = 5 BY Zenon, <1>1, <1>3, <2>5 DEF InitModules
  <2>6. CASE m = 9 BY Zenon, <1>1, <1>3, <2>6 DEF InitModules
  <2>7. CASE m = 12 BY Zenon, <1>1, <1>3, <2>7 DEF InitModules
  <2>8. QED BY Zenon, <2>1, <2>2, <2>3, <2>4, <2>5, <2>6, <2>7 DEF InitModules
<1>4. QED BY Zenon, <1>1, <1>2, <1>3

LEMMA InitApart ==
    /\ InitModules \subseteq 1..12 /\ InitTypes \subseteq 6..11 /\ InitModules \cap InitTypes = {}
    /\ InitModules \cup InitTypes = 1..12
BY DEF InitModules, InitTypes

LEMMA NextStep ==
    ASSUME NEW pos \in 1..12
    PROVE /\ pos + 1 \in Nat \ {0} /\ pos + 1 \in 1..InitDone /\ pos + 1 # 1
          /\ \A n \in 1..12 : n < pos + 1 <=> n < pos \/ n = pos
          /\ \A n \in 1..12 : n >= pos + 1 <=> n >= pos /\ n # pos
BY DEF InitDone

(* What srtp_init has loaded so far.                                       *)
LoadedBefore(pos) == {InitModule(n) : n \in {m \in InitModules : m < pos}}

LEMMA LoadedNext ==
    ASSUME NEW pos \in 1..12
    PROVE /\ pos \in InitModules => LoadedBefore(pos + 1) = LoadedBefore(pos) \cup {InitModule(pos)}
          /\ pos \in InitModules => InitModule(pos) \notin LoadedBefore(pos)
          /\ pos \in InitTypes => LoadedBefore(pos + 1) = LoadedBefore(pos)
<1>1. \A n \in InitModules : n < pos + 1 <=> n < pos \/ n = pos BY Zenon, NextStep, InitApart
<1>2. \A n \in InitModules : n < pos => n # pos BY InitApart
<1>3. pos \in InitTypes => pos \notin InitModules BY Zenon, InitApart
<1>4. pos \in InitModules => LoadedBefore(pos + 1) = LoadedBefore(pos) \cup {InitModule(pos)}
  BY Zenon, <1>1 DEF LoadedBefore
<1>5. pos \in InitModules => InitModule(pos) \notin LoadedBefore(pos)
  BY Zenon, <1>2, InitNames DEF LoadedBefore
<1>6. pos \in InitTypes => LoadedBefore(pos + 1) = LoadedBefore(pos)
  BY Zenon, <1>1, <1>3 DEF LoadedBefore
<1>7. QED BY Zenon, <1>4, <1>5, <1>6

LEMMA LoadInitModuleKeeps == ASSUME KernelInv, LoadInitModule PROVE KernelKeeps
<1> DEFINE pos == call.pos
           name == InitModule(call.pos)
<1>0. ListsOK /\ ObjectsOK /\ TestOK /\ CallOK /\ AskedOK /\ ProgressOK /\ KernelMemoryIsOwned
  BY Zenon DEF KernelInv
<1>1. call.op = "init" /\ pos \in InitModules BY Zenon DEF LoadInitModule
<1>2. test.phase = "off" /\ ~ secure BY Zenon, <1>0, <1>1, InitApart DEF CallOK
<1>3. pos \in 1..12 /\ asked.answer = "pending" BY Zenon, <1>0, <1>1, InitApart DEF AskedOK
<1>4. asked.clean => modules = LoadedBefore(pos) BY Zenon, <1>0, <1>1 DEF ProgressOK, LoadedBefore
<1>5. CASE /\ AddModule(name)
           /\ call' = Calling("init", pos + 1, FALSE)
           /\ UNCHANGED <<secure, test, objects, exited, asked>>
  <2>1. /\ name \notin modules /\ modules' = modules \cup {name} /\ type_list' = type_list
        /\ UNCHANGED <<secure, test, objects, exited, asked>>
    BY Zenon, <1>5 DEF AddModule
  <2>2. CallShape(call') /\ Called(call', "init", pos + 1, FALSE)
    BY Zenon, <1>5, <1>3, NextStep, CallingShape, OneIsPositive
  <2>3. call'.op = "init" /\ call'.pos = pos + 1 /\ ~ call'.replace BY Zenon, <2>2 DEF Called
  <2>4. ListsOK' /\ Compatible /\ ObjectsOK' /\ TestOK'
    BY Zenon, <1>0, <2>1, ListsFrame, ObjectsFrame, TestFrame
  <2>5. KernelMemoryIsOwned' BY Zenon, <1>0, <1>5, <2>1, AddModuleMemory
  <2>6. CallOK'
    <3>1. pos + 1 \in 1..InitDone BY Zenon, <1>3, NextStep
    <3>2. QED BY Zenon, <1>2, <2>1, <2>2, <2>3, <3>1 DEF CallOK
  <2>7. AskedOK' BY Zenon, <1>0, <1>1, <1>2, <2>1, <2>3 DEF AskedOK, InitNeedsCleanKernel
  <2>8. ProgressOK'
    <3>1. \A kind, id : IsListed(kind, id)' <=> IsListed(kind, id) BY Zenon, <2>1, InListFrame
    <3>2. \A n \in InitTypes : /\ n < pos + 1 <=> n < pos
                               /\ n >= pos + 1 <=> n >= pos
      <4>1. \A n \in InitTypes : n \in 1..12 /\ n # pos BY Zenon, <1>1, InitApart
      <4>2. QED BY Zenon, <4>1, <1>3, NextStep
    <3>3. asked.clean => modules' = LoadedBefore(pos + 1) BY Zenon, <1>1, <1>3, <1>4, <2>1, LoadedNext
    <3>4. "crypto kernel" \in modules'
      <4>1. CASE modules # {} BY Zenon, <4>1, <1>0, <2>1 DEF ProgressOK
      <4>2. CASE modules = {}
        <5>1. pos = 1 BY Zenon, <4>2, <1>0, <1>1 DEF ProgressOK
        <5>2. QED BY Zenon, <5>1, <2>1, InitNames
      <4>3. QED BY Zenon, <4>1, <4>2
    <3>5. ~ asked.clean => \E n \in InitTypes : n >= pos /\ IsListed(InitType(n).kind, InitType(n).id)
      <4>1. ~ (pos = 1 /\ modules # {}) BY Zenon, <1>0, <2>1, InitNames DEF ProgressOK
      <4>2. QED BY Zenon, <4>1, <1>0, <1>1 DEF ProgressOK
    <3>6. \A n \in InitTypes : n < pos + 1 => IsListed(InitType(n).kind, InitType(n).id)'
      BY Zenon, <3>1, <3>2, <1>0, <1>1 DEF ProgressOK
    <3>7. asked.clean => \A n \in InitTypes : n >= pos + 1 => ~ IsListed(InitType(n).kind, InitType(n).id)'
      BY Zenon, <3>1, <3>2, <1>0, <1>1 DEF ProgressOK
    <3>8. ~ asked.clean => \E n \in InitTypes : n >= pos + 1 /\ IsListed(InitType(n).kind, InitType(n).id)'
      BY Zenon, <3>1, <3>2, <3>5
    <3>9. secure' \in BOOLEAN /\ ~ secure' BY <1>0, <1>2, <2>1, Zenon DEF ProgressOK
    <3>10. QED BY <2>1, <2>3, <3>3, <3>4, <3>6, <3>7, <3>8, <3>9 DEF ProgressOK, LoadedBefore
  <2>9. QED BY Zenon, <2>4, <2>5, <2>6, <2>7, <2>8 DEF KernelKeeps, KernelInv
<1>6. CASE ModuleRefused(name)
  <2>1. asked.clean => name \notin modules BY Zenon, <1>1, <1>3, <1>4, LoadedNext
  <2>2. Refused(name \notin modules) BY Zenon, <1>6 DEF ModuleRefused
  <2>3. (name \notin modules) \in BOOLEAN BY Zenon
  <2>4. QED BY Zenon, <1>2, <2>1, <2>2, <2>3, RefuseKeeps
<1>7. QED BY Zenon, <1>5, <1>6 DEF LoadInitModule

(* A test begins, and nothing else happens.                                *)
LEMMA BeginTest ==
    ASSUME KernelInv, NEW t, NEW data, Running(t, data), test' = Start(t, data), test.phase \in {"off", "passed"},
           UNCHANGED <<secure, type_list, modules, memory, objects, exited>>
    PROVE /\ ListsOK' /\ Compatible /\ ObjectsOK' /\ KernelMemoryIsOwned'
          /\ Started /\ test'.type = t /\ test'.data = data
<1>0. ListsOK /\ ObjectsOK /\ TestOK /\ KernelMemoryIsOwned BY Zenon DEF KernelInv
<1>1. Started /\ test'.type = t /\ test'.data = data BY Zenon, StartOK
<1>2. test'.held = test.held BY Zenon, <1>0, <1>1, NotHolding DEF Started
<1>3. QED BY Zenon, <1>0, <1>1, <1>2, ListsFrame, ObjectsFrame, MemoryFrame

LEMMA LoadInitTypeKeeps == ASSUME KernelInv, LoadInitType PROVE KernelKeeps
<1> DEFINE t == InitType(call.pos)
<1>0. ListsOK /\ ObjectsOK /\ TestOK /\ CallOK /\ AskedOK /\ ProgressOK /\ KernelMemoryIsOwned
  BY Zenon DEF KernelInv
<1>1. /\ call.op = "init" /\ call.pos \in InitTypes /\ test.phase = "off" /\ test' = Start(t, t.cases)
      /\ UNCHANGED <<secure, type_list, modules, call, memory, objects, exited, asked>>
  BY Zenon DEF LoadInitType
<1>2. PICK i \in 1..5 : t = Standard[i] BY <1>1 DEF InitTypes, InitType
<1>3. t \in Types /\ t.cases # <<>> BY Zenon, <1>2, KernelAssumption DEF Types, PassesAll
<1>4. Running(t, t.cases) BY Zenon, <1>3 DEF Running
<1>5. /\ ListsOK' /\ Compatible /\ ObjectsOK' /\ KernelMemoryIsOwned'
      /\ Started /\ test'.type = t /\ test'.data = t.cases
  BY Zenon, <1>1, <1>4, BeginTest
<1>6. TestOK' /\ test'.phase = "alloc" BY Zenon, <1>3, <1>5 DEF Started
<1>7. CallOK' BY Zenon, <1>0, <1>1, <1>5 DEF CallOK
<1>8. AskedOK' BY Zenon, <1>0, <1>1, <1>6 DEF AskedOK, InitNeedsCleanKernel
<1>9. ProgressOK'
  <2>1. \A kind, id : IsListed(kind, id)' <=> IsListed(kind, id) BY Zenon, <1>1, InListFrame
  <2>2. QED BY Zenon, <2>1, <1>0, <1>1 DEF ProgressOK
<1>10. QED BY Zenon, <1>5, <1>6, <1>7, <1>8, <1>9 DEF KernelKeeps, KernelInv

LEMMA BecomeSecureKeeps == ASSUME KernelInv, BecomeSecure PROVE KernelKeeps
<1>0. ListsOK /\ ObjectsOK /\ TestOK /\ CallOK /\ AskedOK /\ ProgressOK /\ KernelMemoryIsOwned
  BY Zenon DEF KernelInv
<1>1. /\ call.op = "init" /\ call.pos = 13 /\ secure' = TRUE /\ call' = Calling("srtp", 1, FALSE)
      /\ UNCHANGED <<type_list, modules, test, memory, objects, exited, asked>>
  BY Zenon DEF BecomeSecure, InitDone
<1>2. test.phase = "off" BY <1>0, <1>1 DEF CallOK, InitTypes
<1>3. CallShape(call') /\ Called(call', "srtp", 1, FALSE) BY Zenon, <1>1, CallingShape, OneIsPositive
<1>4. call'.op = "srtp" /\ call'.pos = 1 BY Zenon, <1>3 DEF Called
<1>5. ListsOK' /\ Compatible /\ ObjectsOK' /\ TestOK' /\ KernelMemoryIsOwned'
  BY Zenon, <1>0, <1>1, ListsFrame, ObjectsFrame, TestFrame, MemoryFrame
<1>6. CallOK' BY Zenon, <1>1, <1>2, <1>3, <1>4 DEF CallOK
<1>7. AskedOK' BY Zenon, <1>0, <1>1, <1>2, <1>4 DEF AskedOK, InitNeedsCleanKernel
<1>8. ProgressOK'
  <2>1. \A kind, id : IsListed(kind, id)' <=> IsListed(kind, id) BY Zenon, <1>1, InListFrame
  <2>2. \A n \in InitTypes : n < 13 /\ ~ (n >= 13) BY DEF InitTypes
  <2>3. \A n \in InitTypes : IsListed(InitType(n).kind, InitType(n).id)'
    BY Zenon, <2>1, <2>2, <1>0, <1>1 DEF ProgressOK
  <2>a. /\ ~ asked.clean => \/ call.pos = 1 /\ modules # {}
                            \/ \E n \in InitTypes : n >= call.pos /\ IsListed(InitType(n).kind, InitType(n).id)
        /\ asked.clean => modules = LoadedBefore(call.pos)
        /\ call.pos # 1 => modules # {}
        /\ modules # {} => "crypto kernel" \in modules
    BY <1>0, <1>1, Zenon DEF ProgressOK, LoadedBefore
  <2>b. call.pos # 1 BY <1>1
  <2>4. asked.clean BY Zenon, <2>2, <2>a, <2>b, <1>1
  <2>5. "srtp" \notin modules BY <2>4, <2>a, InitNames DEF LoadedBefore
  <2>6. modules # {} BY Zenon, <2>a, <2>b
  <2>7. QED BY Zenon, <2>3, <2>4, <2>5, <2>6, <2>a, <1>1, <1>4 DEF ProgressOK
<1>9. QED BY Zenon, <1>5, <1>6, <1>7, <1>8 DEF KernelKeeps, KernelInv

LEMMA LoadSrtpModuleKeeps == ASSUME KernelInv, LoadSrtpModule PROVE KernelKeeps
<1>0. ListsOK /\ ObjectsOK /\ TestOK /\ CallOK /\ AskedOK /\ ProgressOK /\ KernelMemoryIsOwned
  BY Zenon DEF KernelInv
<1>1. call.op = "srtp" BY Zenon DEF LoadSrtpModule
<1>2. test.phase = "off" /\ test.held = 0 BY Zenon, <1>0, <1>1, NotHolding DEF CallOK
<1>3. (asked.clean <=> "srtp" \notin modules) /\ "crypto kernel" \in modules
  BY Zenon, <1>0, <1>1 DEF ProgressOK, CallOK
<1>4. CASE AddModule("srtp") /\ Return("ok", FALSE)
  <2>1. IdleCall /\ Answered("ok", FALSE) BY Zenon, <1>4 DEF Return, IdleCall, Answered
  <2>2. "srtp" \notin modules /\ modules' = modules \cup {"srtp"} /\ type_list' = type_list
    BY Zenon, <1>4 DEF AddModule
  <2>3. CallOK' /\ call'.op = "none" /\ TestOK' /\ test'.held = 0 BY Zenon, <2>1, CallOver
  <2>4. AskedOK' BY Zenon, <1>0, <1>3, <2>1, <2>2, AnswerOK, OneIsPositive
  <2>5. objects' = objects /\ secure' = secure BY Zenon, <2>1 DEF IdleCall
  <2>6. ListsOK' /\ Compatible /\ ObjectsOK' BY Zenon, <1>0, <2>2, <2>5, ListsFrame, ObjectsFrame
  <2>7. KernelMemoryIsOwned' BY Zenon, <1>0, <1>2, <1>4, <2>3, <2>5, AddModuleMemory
  <2>8. ProgressOK'
    <3>1. \A kind, id : IsListed(kind, id)' <=> IsListed(kind, id) BY Zenon, <2>2, InListFrame
    <3>2. QED BY Zenon, <3>1, <1>0, <1>3, <2>2, <2>3, <2>5 DEF ProgressOK
  <2>9. QED BY Zenon, <2>3, <2>4, <2>6, <2>7, <2>8 DEF KernelKeeps, KernelInv
<1>5. CASE ModuleRefused("srtp")
  <2>1. Refused("srtp" \notin modules) /\ ("srtp" \notin modules) \in BOOLEAN BY Zenon, <1>5 DEF ModuleRefused
  <2>2. QED BY Zenon, <1>2, <1>3, <2>1, RefuseKeeps
<1>6. QED BY Zenon, <1>4, <1>5 DEF LoadSrtpModule

LEMMA InitStepKeeps == ASSUME KernelInv, InitStep PROVE KernelKeeps
BY Zenon, LoadInitModuleKeeps, LoadInitTypeKeeps, BecomeSecureKeeps, LoadSrtpModuleKeeps DEF InitStep

----------------------------------------------------------------------------
(* The self-tests of srtp_crypto_kernel_status.                            *)

LEMMA ListedTypeOK ==
    ASSUME ListsOK, NEW n \in Nat \ {0}, n <= AllListed
    PROVE ListedType(n) \in Types /\ PassesAll(ListedType(n), ListedType(n).cases)
<1>1. type_list["cipher"] \in Seq(Entries) /\ type_list["auth"] \in Seq(Entries)
  BY Zenon DEF ListsOK, TypeKinds
<1>2. Len(type_list["cipher"]) \in Nat /\ Len(type_list["auth"]) \in Nat BY <1>1
<1>3. \A kind \in TypeKinds : \A i \in 1..Len(type_list[kind]) :
        /\ type_list[kind][i] \in Entries
        /\ PassesAll(type_list[kind][i].type, type_list[kind][i].type.cases)
  BY DEF ListsOK
<1>4. \A e \in Entries : e.type \in Types BY DEF Entries, Entry
<1>5. CASE n <= Len(type_list["cipher"])
  <2>1. ListedType(n) = type_list["cipher"][n].type BY Zenon, <1>5 DEF ListedType
  <2>2. n \in 1..Len(type_list["cipher"]) BY <1>2, <1>5
  <2>3. QED BY Zenon, <1>3, <1>4, <2>1, <2>2 DEF TypeKinds
<1>6. CASE ~ (n <= Len(type_list["cipher"]))
  <2>1. ListedType(n) = type_list["auth"][n - Len(type_list["cipher"])].type BY Zenon, <1>6 DEF ListedType
  <2>2. \A a, b, p \in Nat : p <= a + b /\ ~ (p <= a) => p - a \in 1..b OBVIOUS
  <2>3. n - Len(type_list["cipher"]) \in 1..Len(type_list["auth"]) BY Zenon, <2>2, <1>2, <1>6 DEF AllListed
  <2>4. QED BY Zenon, <1>3, <1>4, <2>1, <2>3 DEF TypeKinds
<1>7. QED BY Zenon, <1>5, <1>6

LEMMA StatusTestKeeps == ASSUME KernelInv, StatusTest PROVE KernelKeeps
<1> DEFINE t == ListedType(call.pos)
<1>0. ListsOK /\ ObjectsOK /\ TestOK /\ CallOK /\ AskedOK /\ ProgressOK /\ KernelMemoryIsOwned
  BY Zenon DEF KernelInv
<1>1. /\ call.op = "status" /\ call.pos <= AllListed /\ test.phase = "off" /\ test' = Start(t, t.cases)
      /\ UNCHANGED <<secure, type_list, modules, call, memory, objects, exited, asked>>
  BY Zenon DEF StatusTest
<1>2. call.pos \in Nat \ {0} BY Zenon, <1>0 DEF CallOK, CallShape
<1>3. t \in Types /\ t.cases # <<>> BY Zenon, <1>0, <1>1, <1>2, ListedTypeOK DEF PassesAll
<1>4. Running(t, t.cases) BY Zenon, <1>3 DEF Running
<1>5. /\ ListsOK' /\ Compatible /\ ObjectsOK' /\ KernelMemoryIsOwned'
      /\ Started /\ test'.type = t /\ test'.data = t.cases
  BY Zenon, <1>1, <1>4, BeginTest
<1>6. TestOK' /\ test'.phase = "alloc" BY Zenon, <1>3, <1>5 DEF Started
<1>7. CallOK'
  <2>1. AllListed' = AllListed /\ ListedType(call.pos)' = ListedType(call.pos)
    BY Zenon, <1>1 DEF AllListed, ListedType
  <2>2. QED BY Zenon, <2>1, <1>0, <1>1, <1>5 DEF CallOK
<1>8. AskedOK' BY Zenon, <1>0, <1>1, <1>6 DEF AskedOK, InitNeedsCleanKernel
<1>9. ProgressOK'
  <2>1. \A kind, id : IsListed(kind, id)' <=> IsListed(kind, id) BY Zenon, <1>1, InListFrame
  <2>2. QED BY Zenon, <2>1, <1>0, <1>1 DEF ProgressOK
<1>10. QED BY Zenon, <1>5, <1>6, <1>7, <1>8, <1>9 DEF KernelKeeps, KernelInv

(* The walk goes on, or is over.                                           *)
LEMMA StatusMoves ==
    ASSUME KernelInv, NEW op \in {"status", "srtp"}, NEW pos \in Nat \ {0}, call.op = "status",
           call' = Calling(op, pos, FALSE), TestOK', test'.phase = "off", test.held = 0, test'.held = 0,
           UNCHANGED <<secure, type_list, modules, memory, objects, exited, asked>>
    PROVE KernelKeeps
<1>0. ListsOK /\ ObjectsOK /\ TestOK /\ CallOK /\ AskedOK /\ ProgressOK /\ KernelMemoryIsOwned
  BY Zenon DEF KernelInv
<1>1. CallShape(call') /\ Called(call', op, pos, FALSE) BY Zenon, CallingShape, OneIsPositive
<1>2. call'.op = op /\ call'.pos = pos BY Zenon, <1>1 DEF Called
<1>3. ListsOK' /\ Compatible /\ ObjectsOK' /\ KernelMemoryIsOwned'
  BY Zenon, <1>0, ListsFrame, ObjectsFrame, MemoryFrame
<1>4. CallOK' BY Zenon, <1>0, <1>1, <1>2 DEF CallOK
<1>5. AskedOK' BY Zenon, <1>0, <1>2 DEF AskedOK, InitNeedsCleanKernel
<1>6. ProgressOK'
  <2>1. \A kind, id : IsListed(kind, id)' <=> IsListed(kind, id) BY Zenon, InListFrame
  <2>2. QED BY Zenon, <2>1, <1>0, <1>2 DEF ProgressOK
<1>7. QED BY Zenon, <1>3, <1>4, <1>5, <1>6 DEF KernelKeeps, KernelInv

LEMMA StatusPassedKeeps == ASSUME KernelInv, StatusPassed PROVE KernelKeeps
<1>1. TestOK /\ CallShape(call) BY Zenon DEF KernelInv, CallOK
<1>2. call.pos + 1 \in Nat \ {0} BY <1>1 DEF CallShape
<1>3. test.held = 0 BY Zenon, <1>1, NotHolding DEF StatusPassed
<1>4. TestOK' /\ test'.phase = "off" /\ test'.held = 0 BY Zenon, IdleTest DEF StatusPassed
<1>5. QED BY Zenon, <1>2, <1>3, <1>4, StatusMoves DEF StatusPassed

LEMMA StatusDoneKeeps == ASSUME KernelInv, StatusDone PROVE KernelKeeps
<1>0. TestOK /\ CallOK /\ ListsOK BY Zenon DEF KernelInv
<1>a. call.pos > AllListed /\ call.op = "status" BY Zenon DEF StatusDone
<1>b. AllListed \in Nat /\ call.pos \in Nat
  <2>1. type_list["cipher"] \in Seq(Entries) /\ type_list["auth"] \in Seq(Entries)
    BY Zenon, <1>0 DEF ListsOK, TypeKinds
  <2>2. Len(type_list["cipher"]) \in Nat /\ Len(type_list["auth"]) \in Nat BY <2>1
  <2>3. call.pos \in Nat BY Zenon, <1>0 DEF CallOK, CallShape
  <2>4. \A a, b \in Nat : a + b \in Nat OBVIOUS
  <2>5. AllListed \in Nat BY Zenon, <2>2, <2>4 DEF AllListed
  <2>6. QED BY Zenon, <2>3, <2>5
<1>c. ~ (call.pos <= AllListed) BY <1>a, <1>b
<1>1. test.phase = "off" BY Zenon, <1>0, <1>a, <1>c DEF CallOK
<1>2. test.held = 0 BY Zenon, <1>0, <1>1, NotHolding
<1>3. test' = test /\ TestOK' BY Zenon, <1>0, TestFrame DEF StatusDone
<1>4. QED BY Zenon, <1>1, <1>2, <1>3, StatusMoves, OneIsPositive DEF StatusDone

LEMMA StatusFailedKeeps == ASSUME KernelInv, StatusFailed PROVE KernelKeeps
<1>0. ListsOK /\ ObjectsOK /\ TestOK /\ CallOK /\ AskedOK /\ ProgressOK /\ KernelMemoryIsOwned
  BY Zenon DEF KernelInv
<1>1. /\ call.op = "status" /\ test.phase = "failed" /\ exited' = TRUE
      /\ UNCHANGED <<secure, type_list, modules, call, test, memory, objects, asked>>
  BY Zenon DEF StatusFailed
<1>2. ListsOK' /\ Compatible /\ ObjectsOK' /\ TestOK' /\ KernelMemoryIsOwned'
  BY Zenon, <1>0, <1>1, ListsFrame, ObjectsFrame, TestFrame, MemoryFrame
<1>3. CallOK'
  <2>1. AllListed' = AllListed /\ ListedType(call.pos)' = ListedType(call.pos)
    BY Zenon, <1>1 DEF AllListed, ListedType
  <2>2. QED BY Zenon, <2>1, <1>0, <1>1 DEF CallOK
<1>4. AskedOK' BY Zenon, <1>0, <1>1 DEF AskedOK, InitNeedsCleanKernel
<1>5. ProgressOK'
  <2>1. \A kind, id : IsListed(kind, id)' <=> IsListed(kind, id) BY Zenon, <1>1, InListFrame
  <2>2. QED BY Zenon, <2>1, <1>0, <1>1 DEF ProgressOK
<1>6. QED BY Zenon, <1>2, <1>3, <1>4, <1>5 DEF KernelKeeps, KernelInv

LEMMA StatusStepKeeps == ASSUME KernelInv, StatusStep PROVE KernelKeeps
BY Zenon, StatusTestKeeps, StatusPassedKeeps, StatusFailedKeeps, StatusDoneKeeps DEF StatusStep

----------------------------------------------------------------------------
(* Loading and replacing types.                                            *)

LEMMA LoadTypeKeeps ==
    ASSUME KernelInv, NEW t \in Others, NEW replace \in BOOLEAN, LoadType(t, replace)
    PROVE KernelKeeps
<1>0. ListsOK /\ ObjectsOK /\ TestOK /\ CallOK /\ AskedOK /\ ProgressOK /\ KernelMemoryIsOwned
  BY Zenon DEF KernelInv
<1>1. /\ call.op = "none" /\ ~ exited /\ call' = Calling("load", 1, replace)
      /\ test' = Start(t, t.cases) /\ asked' = Asked(TRUE, FALSE, "none")
      /\ UNCHANGED <<secure, type_list, modules, memory, objects, exited>>
  BY Zenon DEF LoadType, Ready
<1>2. test.phase = "off" BY Zenon, <1>0, <1>1 DEF CallOK
<1>3. Running(t, t.cases) BY Zenon DEF Running, Types
<1>4. /\ ListsOK' /\ Compatible /\ ObjectsOK' /\ KernelMemoryIsOwned'
      /\ Started /\ test'.type = t /\ test'.data = t.cases
  BY Zenon, <1>1, <1>2, <1>3, BeginTest
<1>5. CallShape(call') /\ Called(call', "load", 1, replace) BY Zenon, <1>1, CallingShape, OneIsPositive
<1>6. call'.op = "load" BY Zenon, <1>5 DEF Called
<1>7. TestOK' /\ test'.phase # "off" BY Zenon, <1>4 DEF Started
<1>8. CallOK' BY Zenon, <1>4, <1>5, <1>6, <1>7 DEF CallOK
<1>9. AskedOK'
  <2>1. asked'.clean = TRUE /\ asked'.faulted = FALSE /\ asked'.answer = "none" BY Zenon, <1>1 DEF Asked
  <2>2. asked' = Asked(asked'.clean, asked'.faulted, asked'.answer) BY Zenon, <1>1, <2>1
  <2>3. exited \in BOOLEAN BY Zenon, <1>0 DEF AskedOK
  <2>4. QED BY Zenon, <1>1, <1>6, <2>1, <2>2, <2>3 DEF AskedOK, InitNeedsCleanKernel
<1>10. ProgressOK' BY Zenon, <1>0, <1>1, <1>6, ProgressIdle
<1>11. QED BY Zenon, <1>4, <1>7, <1>8, <1>9, <1>10 DEF KernelKeeps, KernelInv

LEMMA TypeFailedKeeps == ASSUME KernelInv, TypeFailed PROVE KernelKeeps
<1>0. AskedOK BY Zenon DEF KernelInv
<1>1. call.op \in {"init", "load", "replace"} /\ test.phase = "failed" /\ Refused(FALSE)
  BY Zenon DEF TypeFailed
<1>2. asked.answer = "pending" => asked.faulted BY Zenon, <1>0, <1>1 DEF AskedOK
<1>3. QED BY Zenon, <1>1, <1>2, RefuseKeeps, OneIsPositive

(* The walk stops at the entry with the id, if there is one.               *)
LEMMA FoundById ==
    ASSUME ListsOK, NEW t \in Types
    PROVE /\ \A i \in Found(t) : i \in 1..Len(type_list[t.kind]) /\ type_list[t.kind][i].id = t.id
          /\ IsListed(t.kind, t.id) => Found(t) # {}
<1> DEFINE l == type_list[t.kind]
<1>0. t.kind \in TypeKinds BY Zenon, CasesAreSequences
<1>1. l \in Seq(Entries) BY Zenon, <1>0 DEF ListsOK
<1>2. Len(l) \in Nat BY <1>1
<1>3. \A i \in 1..Len(l) : l[i].id = l[i].type.id
  <2>1. \A i \in 1..Len(l) : l[i] \in Entries BY <1>1
  <2>2. \A e \in Entries : e.id = e.type.id BY DEF Entries, Entry
  <2>3. QED BY Zenon, <2>1, <2>2
<1>4. \A i \in 1..Len(l) : Matches(l[i], t) <=> l[i].id = t.id BY Zenon, <1>3 DEF Matches
<1>5. \A i \in Found(t) : i \in 1..Len(l) /\ l[i].id = t.id BY Zenon, <1>4 DEF Found
<1>6. ASSUME IsListed(t.kind, t.id) PROVE Found(t) # {}
  <2>1. PICK i \in 1..Len(l) : l[i].id = t.id BY Zenon, <1>6 DEF IsListed
  <2>2. \A j \in 1..(i - 1) : j \in 1..Len(l) /\ j # i BY SMTT(30), <1>2
  <2>3. \A j \in 1..(i - 1) : ~ Matches(l[j], t)
    BY <2>1, <2>2, <1>0, <1>4 DEF ListsOK
  <2>4. i \in Found(t) BY Zenon, <2>1, <2>3, <1>4 DEF Found
  <2>5. QED BY Zenon, <2>4
<1>7. QED BY Zenon, <1>5, <1>6

LEMMA TypeRefusedKeeps == ASSUME KernelInv, TypeRefused PROVE KernelKeeps
<1> DEFINE t == test.type
<1>0. ListsOK /\ TestOK /\ CallOK /\ AskedOK /\ ProgressOK BY Zenon DEF KernelInv
<1>1. call.op \in {"init", "load"} /\ test.phase = "passed" /\ Found(t) # {} /\ Refused(FALSE)
  BY Zenon DEF TypeRefused
<1>2. t \in Types BY Zenon, <1>0 DEF TestOK
<1>3. IsListed(t.kind, t.id) BY Zenon, <1>0, <1>1, <1>2, FoundById DEF IsListed
<1>4. asked.answer = "pending" => ~ asked.clean
  <2>1. SUFFICES ASSUME asked.answer = "pending", asked.clean PROVE FALSE BY Zenon
  <2>2. call.op = "init" BY Zenon, <2>1, <1>0, <1>1 DEF AskedOK
  <2>3. call.pos \in InitTypes /\ t = InitType(call.pos) BY Zenon, <2>2, <1>0, <1>1 DEF CallOK
  <2>4. call.pos >= call.pos BY SMTT(30), <2>3, InitApart
  <2>5. QED BY Zenon, <2>1, <2>2, <2>3, <2>4, <1>0, <1>3 DEF ProgressOK
<1>5. QED BY Zenon, <1>1, <1>4, RefuseKeeps, OneIsPositive

LEMMA TestAgainstOldKeeps == ASSUME KernelInv, TestAgainstOld PROVE KernelKeeps
<1> DEFINE t == test.type
<1>0. ListsOK /\ ObjectsOK /\ TestOK /\ CallOK /\ AskedOK /\ ProgressOK /\ KernelMemoryIsOwned
  BY Zenon DEF KernelInv
<1>1. PICK i \in Found(t) : /\ type_list[t.kind][i].id = t.id /\ call.replace
                            /\ test' = Start(t, type_list[t.kind][i].type.cases)
                            /\ call' = Calling("replace", i, TRUE)
  BY Zenon DEF TestAgainstOld
<1>2. /\ call.op \in {"init", "load"} /\ test.phase = "passed"
      /\ UNCHANGED <<secure, type_list, modules, memory, objects, exited, asked>>
  BY Zenon DEF TestAgainstOld
<1>3. call.op = "load" BY Zenon, <1>0, <1>1, <1>2 DEF CallOK
<1>4. t \in Types /\ t.kind \in TypeKinds BY Zenon, <1>0, CasesAreSequences DEF TestOK
<1>5. i \in 1..Len(type_list[t.kind]) BY Zenon, <1>0, <1>4, FoundById
<1>6. PassesAll(t, t.cases) BY Zenon, <1>0, <1>2, <1>3 DEF TestOK, PhaseOK, CallOK
<1> DEFINE old == type_list[t.kind][i].type
<1>7. old \in Types
  <2>1. type_list[t.kind] \in Seq(Entries) BY Zenon, <1>0, <1>4 DEF ListsOK
  <2>2. type_list[t.kind][i] \in Entries BY <2>1, <1>5
  <2>3. \A e \in Entries : e.type \in Types BY DEF Entries, Entry
  <2>4. QED BY Zenon, <2>2, <2>3
<1>8. Running(t, old.cases) BY Zenon, <1>4, <1>7 DEF Running
<1>9. /\ ListsOK' /\ Compatible /\ ObjectsOK' /\ KernelMemoryIsOwned'
      /\ Started /\ test'.type = t /\ test'.data = old.cases
  BY Zenon, <1>1, <1>2, <1>8, BeginTest
<1>10. i \in Nat \ {0}
  <2>1. type_list[t.kind] \in Seq(Entries) BY Zenon, <1>0, <1>4 DEF ListsOK
  <2>2. QED BY <2>1, <1>5
<1>11. CallShape(call') /\ Called(call', "replace", i, TRUE) BY Zenon, <1>1, <1>10, CallingShape, OneIsPositive
<1>12. call'.op = "replace" /\ call'.pos = i BY Zenon, <1>11 DEF Called
<1>13. TestOK' /\ test'.phase # "off" BY Zenon, <1>9 DEF Started
<1>14. CallOK' BY Zenon, <1>1, <1>2, <1>5, <1>6, <1>9, <1>11, <1>12, <1>13 DEF CallOK
<1>15. AskedOK' BY Zenon, <1>0, <1>2, <1>3, <1>12 DEF AskedOK, InitNeedsCleanKernel
<1>16. ProgressOK' BY Zenon, <1>0, <1>2, <1>12, ProgressIdle
<1>17. QED BY Zenon, <1>9, <1>13, <1>14, <1>15, <1>16 DEF KernelKeeps, KernelInv

LEMMA ConsIs ==
    ASSUME NEW S, NEW s \in Seq(S), NEW e \in S
    PROVE /\ <<e>> \o s \in Seq(S)
          /\ Len(<<e>> \o s) = Len(s) + 1
          /\ (<<e>> \o s)[1] = e
          /\ \A i \in 1..Len(s) : (<<e>> \o s)[i + 1] = s[i]
          /\ \A i \in 1..(Len(s) + 1) : i # 1 => i - 1 \in 1..Len(s) /\ (<<e>> \o s)[i] = s[i - 1]
<1>1. <<e>> \in Seq(S) /\ Len(<<e>>) = 1 /\ <<e>>[1] = e OBVIOUS
<1>2. Len(s) \in Nat OBVIOUS
<1>3. <<e>> \o s \in Seq(S) /\ Len(<<e>> \o s) = Len(s) + 1 /\ (<<e>> \o s)[1] = e BY <1>1, <1>2
<1>4. \A i \in 1..Len(s) : (<<e>> \o s)[i + 1] = s[i] BY <1>1, <1>2
<1>5. \A i \in 1..(Len(s) + 1) : i # 1 => i - 1 \in 1..Len(s) /\ (<<e>> \o s)[i] = s[i - 1] BY <1>1, <1>2
<1>6. QED BY Zenon, <1>3, <1>4, <1>5

(* A tested type whose id is not in the list goes to its head.             *)
TypeAdded(t) ==
    /\ ListsOK'
    /\ Compatible
    /\ \A kind \in TypeKinds : \A id : IsListed(kind, id)' <=> IsListed(kind, id) \/ (kind = t.kind /\ id = t.id)
    /\ ListNodes("cipher")' \cup ListNodes("auth")' =
         ListNodes("cipher") \cup ListNodes("auth") \cup {Node(t.kind, t.id)}

LEMMA TypeAddedOK ==
    ASSUME ListsOK, NEW t \in Types, PassesAll(t, t.cases), ~ IsListed(t.kind, t.id),
           type_list' = [type_list EXCEPT ![t.kind] = <<Entry(t)>> \o @]
    PROVE TypeAdded(t)
<1> DEFINE l == type_list[t.kind]
           m == <<Entry(t)>> \o l
<1>0. t.kind \in TypeKinds BY Zenon, CasesAreSequences
<1>1. type_list \in [TypeKinds -> Seq(Entries)] /\ l \in Seq(Entries) BY Zenon, <1>0 DEF ListsOK
<1>2. Entry(t) \in Entries /\ Entry(t).id = t.id /\ Entry(t).type = t BY Zenon DEF Entries, Entry
<1>3. /\ m \in Seq(Entries) /\ Len(m) = Len(l) + 1 /\ m[1] = Entry(t)
      /\ \A i \in 1..Len(l) : m[i + 1] = l[i]
      /\ \A i \in 1..(Len(l) + 1) : i # 1 => i - 1 \in 1..Len(l) /\ m[i] = l[i - 1]
  BY <1>1, <1>2, ConsIs
<1>4. type_list'[t.kind] = m BY Zenon, <1>0, <1>1
<1>5. \A kind \in TypeKinds : kind # t.kind => type_list'[kind] = type_list[kind] BY Zenon, <1>1
<1>6. type_list' \in [TypeKinds -> Seq(Entries)] BY Zenon, <1>0, <1>1, <1>3
<1>7. Len(l) \in Nat BY <1>1
<1> HIDE DEF l, m
<1>8. \A i \in 1..Len(l) : l[i].id # t.id BY Zenon DEF IsListed, l
<1>9. \A i \in 1..Len(l) : /\ l[i].type.kind = t.kind
                           /\ PassesAll(l[i].type, l[i].type.cases)
                           /\ \A j \in 1..Len(l) : l[i].id = l[j].id => i = j
  BY Zenon, <1>0 DEF ListsOK, l
<1>10. \A i \in 1..Len(m) : m[i].type.kind = t.kind /\ PassesAll(m[i].type, m[i].type.cases)
  <2>1. TAKE i \in 1..Len(m)
  <2>2. CASE i = 1 BY Zenon, <2>2, <1>2, <1>3
  <2>3. CASE i # 1
    <3>1. i - 1 \in 1..Len(l) /\ m[i] = l[i - 1] BY Zenon, <2>3, <1>3
    <3>2. QED BY Zenon, <3>1, <1>9
  <2>4. QED BY Zenon, <2>2, <2>3
<1>11. \A i, j \in 1..Len(m) : m[i].id = m[j].id => i = j
  <2>1. SUFFICES ASSUME NEW i \in 1..Len(m), NEW j \in 1..Len(m), m[i].id = m[j].id PROVE i = j
    BY Zenon
  <2>2. CASE i = 1 /\ j = 1 BY Zenon, <2>2
  <2>3. CASE i = 1 /\ j # 1
    <3>1. j - 1 \in 1..Len(l) /\ m[j] = l[j - 1] /\ m[1].id = t.id BY Zenon, <2>3, <1>2, <1>3
    <3>2. QED BY Zenon, <3>1, <2>1, <2>3, <1>8
  <2>4. CASE i # 1 /\ j = 1
    <3>1. i - 1 \in 1..Len(l) /\ m[i] = l[i - 1] /\ m[1].id = t.id BY Zenon, <2>4, <1>2, <1>3
    <3>2. QED BY Zenon, <3>1, <2>1, <2>4, <1>8
  <2>5. CASE i # 1 /\ j # 1
    <3>1. i - 1 \in 1..Len(l) /\ m[i] = l[i - 1] /\ j - 1 \in 1..Len(l) /\ m[j] = l[j - 1]
      BY Zenon, <2>5, <1>3
    <3>2. i - 1 = j - 1 BY Zenon, <3>1, <2>1, <1>9
    <3>3. QED BY <3>2, <1>3, <1>7
  <2>6. QED BY Zenon, <2>2, <2>3, <2>4, <2>5
<1>12. ListsOK'
  <2>1. ASSUME NEW kind \in TypeKinds, NEW i \in 1..Len(type_list'[kind])
        PROVE /\ type_list'[kind][i].type.kind = kind
              /\ PassesAll(type_list'[kind][i].type, type_list'[kind][i].type.cases)
              /\ \A j \in 1..Len(type_list'[kind]) : type_list'[kind][i].id = type_list'[kind][j].id => i = j
    <3>1. CASE kind = t.kind
      <4>1. type_list'[kind] = m /\ i \in 1..Len(m) BY Zenon, <3>1, <2>1, <1>4
      <4>2. QED BY Zenon, <3>1, <4>1, <1>10, <1>11
    <3>2. CASE kind # t.kind BY <3>2, <2>1, <1>5 DEF ListsOK
    <3>3. QED BY Zenon, <3>1, <3>2
  <2>2. QED BY Zenon, <2>1, <1>6 DEF ListsOK
<1>13. Compatible
  <2>1. SUFFICES ASSUME NEW kind \in TypeKinds, NEW i \in 1..Len(type_list[kind]),
                        NEW j \in 1..Len(type_list'[kind]), type_list[kind][i].id = type_list'[kind][j].id
                 PROVE PassesAll(type_list'[kind][j].type, type_list[kind][i].type.cases)
    BY Zenon DEF Compatible
  <2>2. CASE kind # t.kind
    <3>1. type_list'[kind] = type_list[kind] BY Zenon, <2>2, <1>5
    <3>2. j = i BY SMTT(30), <2>1, <3>1 DEF ListsOK
    <3>3. QED BY Zenon, <3>1, <3>2 DEF ListsOK
  <2>3. CASE kind = t.kind
    <3>1. i \in 1..Len(l) /\ j \in 1..Len(m) /\ l[i].id = m[j].id BY Zenon, <2>1, <2>3, <1>4 DEF l
    <3>2. j # 1 BY Zenon, <3>1, <1>2, <1>3, <1>8
    <3>3. j - 1 \in 1..Len(l) /\ m[j] = l[j - 1] BY Zenon, <3>1, <3>2, <1>3
    <3>4. j - 1 = i BY Zenon, <3>1, <3>3, <1>9
    <3>5. m[j] = l[i] BY Zenon, <3>3, <3>4
    <3>6. QED BY Zenon, <2>3, <3>1, <3>5, <1>4, <1>9 DEF l
  <2>4. QED BY Zenon, <2>2, <2>3
<1>14. \A id : (\E i \in 1..Len(m) : m[i].id = id) <=> (\E i \in 1..Len(l) : l[i].id = id) \/ id = t.id
  <2>1. SUFFICES ASSUME NEW id
                 PROVE (\E i \in 1..Len(m) : m[i].id = id) <=> (\E i \in 1..Len(l) : l[i].id = id) \/ id = t.id
    BY Zenon
  <2>2. ASSUME NEW i \in 1..Len(m), m[i].id = id PROVE (\E k \in 1..Len(l) : l[k].id = id) \/ id = t.id
    <3>1. CASE i = 1 BY Zenon, <3>1, <2>2, <1>2, <1>3
    <3>2. CASE i # 1 BY Zenon, <3>2, <2>2, <1>3
    <3>3. QED BY Zenon, <3>1, <3>2
  <2>3. ASSUME NEW i \in 1..Len(l), l[i].id = id PROVE \E k \in 1..Len(m) : m[k].id = id
    <3>1. i + 1 \in 1..Len(m) /\ m[i + 1].id = id BY SMTT(30), <2>3, <1>3, <1>7
    <3>2. QED BY Zenon, <3>1
  <2>4. ASSUME id = t.id PROVE \E k \in 1..Len(m) : m[k].id = id
    <3>1. 1 \in 1..Len(m) BY <1>3, <1>7
    <3>2. QED BY Zenon, <3>1, <2>4, <1>2, <1>3
  <2>5. QED BY Zenon, <2>2, <2>3, <2>4
<1>15. \A kind \in TypeKinds : \A id : IsListed(kind, id)' <=> IsListed(kind, id) \/ (kind = t.kind /\ id = t.id)
  <2>1. TAKE kind \in TypeKinds
  <2>2. CASE kind = t.kind
    <3>1. \A id : IsListed(kind, id) <=> \E i \in 1..Len(l) : l[i].id = id BY Zenon, <2>2 DEF IsListed, l
    <3>a. type_list'[kind] = m BY Zenon, <2>2, <1>4
    <3>2. \A id : IsListed(kind, id)' <=> \E i \in 1..Len(m) : m[i].id = id BY <3>a, Zenon DEF IsListed
    <3>3. QED BY <2>2, <3>1, <3>2, <1>14, Zenon
  <2>3. CASE kind # t.kind
    <3>1. type_list'[kind] = type_list[kind] BY Zenon, <2>3, <1>5
    <3>2. \A id : IsListed(kind, id)' <=> IsListed(kind, id) BY Zenon, <3>1 DEF IsListed
    <3>3. QED BY Zenon, <2>3, <3>2
  <2>4. QED BY Zenon, <2>2, <2>3
<1>17. \A kind \in TypeKinds : ListNodes(kind)' = IF kind = t.kind THEN ListNodes(kind) \cup {Node(t.kind, t.id)} ELSE ListNodes(kind)
  <2>1. TAKE kind \in TypeKinds
  <2>2. CASE kind # t.kind BY Zenon, <2>2, <1>5 DEF ListNodes
  <2>3. CASE kind = t.kind
    <3>1. \A p : p \in ListNodes(kind) <=> \E i \in 1..Len(l) : p = Node(kind, l[i].id)
      BY Zenon, <2>3 DEF ListNodes, l
    <3>a. type_list'[kind] = m BY Zenon, <2>3, <1>4
    <3>2. \A p : p \in ListNodes(kind)' <=> \E i \in 1..Len(m) : p = Node(kind, m[i].id)
      BY Zenon, <3>a DEF ListNodes
    <3>3. \A p : p \in ListNodes(kind)' <=> p \in ListNodes(kind) \/ p = Node(t.kind, t.id)
      <4>1. TAKE p
      <4>2. ASSUME p \in ListNodes(kind)' PROVE p \in ListNodes(kind) \/ p = Node(t.kind, t.id)
        <5>1. PICK i \in 1..Len(m) : p = Node(kind, m[i].id) BY Zenon, <4>2, <3>2
        <5>2. (\E k \in 1..Len(l) : l[k].id = m[i].id) \/ m[i].id = t.id BY Zenon, <1>14
        <5>3. QED BY Zenon, <5>1, <5>2, <3>1, <2>3
      <4>3. ASSUME p \in ListNodes(kind) PROVE p \in ListNodes(kind)'
        <5>1. PICK i \in 1..Len(l) : p = Node(kind, l[i].id) BY Zenon, <4>3, <3>1
        <5>2. \E k \in 1..Len(m) : m[k].id = l[i].id BY Zenon, <1>14
        <5>3. QED BY Zenon, <5>1, <5>2, <3>2
      <4>4. ASSUME p = Node(t.kind, t.id) PROVE p \in ListNodes(kind)'
        <5>1. \E k \in 1..Len(m) : m[k].id = t.id BY Zenon, <1>14
        <5>2. QED BY Zenon, <5>1, <3>2, <4>4, <2>3
      <4>5. QED BY Zenon, <4>2, <4>3, <4>4
    <3>4. QED BY Zenon, <3>3, <2>3
  <2>4. QED BY Zenon, <2>2, <2>3
<1>18. ListNodes("cipher")' \cup ListNodes("auth")' =
         ListNodes("cipher") \cup ListNodes("auth") \cup {Node(t.kind, t.id)}
  <2>1. CASE t.kind = "cipher"
    <3>1. ListNodes("cipher")' = ListNodes("cipher") \cup {Node(t.kind, t.id)} /\ ListNodes("auth")' = ListNodes("auth")
      BY Zenon, <2>1, <1>17 DEF TypeKinds
    <3>2. QED BY Zenon, <3>1
  <2>2. CASE t.kind = "auth"
    <3>1. ListNodes("auth")' = ListNodes("auth") \cup {Node(t.kind, t.id)} /\ ListNodes("cipher")' = ListNodes("cipher")
      BY Zenon, <2>2, <1>17 DEF TypeKinds
    <3>2. QED BY Zenon, <3>1
  <2>3. QED BY Zenon, <2>1, <2>2, <1>0 DEF TypeKinds
<1>19. QED BY Zenon, <1>12, <1>13, <1>15, <1>18 DEF TypeAdded

LEMMA InitTypeOK ==
    ASSUME NEW n \in InitTypes
    PROVE /\ InitType(n) \in Types /\ InitType(n).kind \in TypeKinds
          /\ \A m \in InitTypes : InitType(m).kind = InitType(n).kind /\ InitType(m).id = InitType(n).id => m = n
<1>1. \A m \in InitTypes : LET i == IF m < 9 THEN m - 5 ELSE m - 6
                           IN i \in 1..5 /\ InitType(m) = Standard[i]
  BY DEF InitTypes, InitType
<1>2. InitType(n) \in Types BY Zenon, <1>1 DEF Types
<1>3. ASSUME NEW m \in InitTypes, InitType(m).kind = InitType(n).kind, InitType(m).id = InitType(n).id
      PROVE m = n
  <2>1. (IF m < 9 THEN m - 5 ELSE m - 6) = (IF n < 9 THEN n - 5 ELSE n - 6)
    BY Zenon, <1>1, <1>3, KernelAssumption
  <2>2. QED BY SMTT(30), <2>1 DEF InitTypes
<1>4. QED BY Zenon, <1>2, <1>3, CasesAreSequences

LEMMA AddTypeKeeps == ASSUME KernelInv, AddType PROVE KernelKeeps
<1> DEFINE t == test.type
           pos == call.pos
<1>0. ListsOK /\ ObjectsOK /\ TestOK /\ CallOK /\ AskedOK /\ ProgressOK /\ KernelMemoryIsOwned
  BY Zenon DEF KernelInv
<1>1. call.op \in {"init", "load"} /\ test.phase = "passed" /\ Found(t) = {} BY Zenon DEF AddType
<1>2. t \in Types /\ t.kind \in TypeKinds BY Zenon, <1>0, CasesAreSequences DEF TestOK
<1>3. ~ IsListed(t.kind, t.id) BY Zenon, <1>0, <1>1, <1>2, FoundById
<1>4. PassesAll(t, t.cases)
  <2>1. test.data = t.cases BY Zenon, <1>0, <1>1 DEF CallOK
  <2>2. QED BY Zenon, <2>1, <1>0, <1>1 DEF TestOK, PhaseOK
<1>5. CASE Refused(TRUE) BY Zenon, <1>1, <1>5, RefuseKeeps, OneIsPositive
<1>6. ASSUME type_list' = [type_list EXCEPT ![t.kind] = <<Entry(t)>> \o @],
             memory' = memory \cup {Node(t.kind, t.id)}, modules' = modules,
             objects' = objects, test'.held = 0
      PROVE /\ ListsOK' /\ Compatible /\ ObjectsOK' /\ KernelMemoryIsOwned'
            /\ \A kind \in TypeKinds : \A id : IsListed(kind, id)' <=> IsListed(kind, id) \/ (kind = t.kind /\ id = t.id)
  <2>1. TypeAdded(t) BY Zenon, <1>0, <1>2, <1>3, <1>4, <1>6, TypeAddedOK
  <2>2. ObjectsOK' BY Zenon, <1>0, <1>6, ObjectsFrame
  <2>3. Nodes' = Nodes \cup {Node(t.kind, t.id)} BY Zenon, <1>6, <2>1 DEF TypeAdded, Nodes
  <2>4. test.held = 0 BY Zenon, <1>0, <1>1, NotHolding
  <2>5. KernelMemoryIsOwned' BY Zenon, <1>0, <1>6, <2>3, <2>4 DEF KernelMemoryIsOwned
  <2>6. QED BY Zenon, <2>1, <2>2, <2>5 DEF TypeAdded
<1>7. CASE /\ type_list' = [type_list EXCEPT ![t.kind] = <<Entry(t)>> \o @]
           /\ memory' = memory \cup {Node(t.kind, t.id)}
           /\ UNCHANGED modules
           /\ call.op = "load"
           /\ Return("none", FALSE)
  <2>1. IdleCall /\ Answered("none", FALSE) BY Zenon, <1>7 DEF Return, IdleCall, Answered
  <2>2. CallOK' /\ call'.op = "none" /\ TestOK' /\ test'.held = 0 /\ objects' = objects /\ secure' = secure
    BY Zenon, <2>1, CallOver DEF IdleCall
  <2>3. /\ ListsOK' /\ Compatible /\ ObjectsOK' /\ KernelMemoryIsOwned'
        /\ \A kind \in TypeKinds : \A id : IsListed(kind, id)' <=> IsListed(kind, id) \/ (kind = t.kind /\ id = t.id)
    BY Zenon, <1>6, <1>7, <2>2
  <2>4. AskedOK' BY Zenon, <1>0, <2>1, AnswerOK, OneIsPositive
  <2>5. ProgressOK'
    <3>1. \A n \in InitTypes : IsListed(InitType(n).kind, InitType(n).id) => IsListed(InitType(n).kind, InitType(n).id)'
      BY Zenon, <2>3, InitTypeOK
    <3>2. QED BY Zenon, <3>1, <1>0, <1>7, <2>2 DEF ProgressOK
  <2>6. QED BY Zenon, <2>2, <2>3, <2>4, <2>5 DEF KernelKeeps, KernelInv
<1>8. CASE /\ type_list' = [type_list EXCEPT ![t.kind] = <<Entry(t)>> \o @]
           /\ memory' = memory \cup {Node(t.kind, t.id)}
           /\ UNCHANGED modules
           /\ call.op = "init"
           /\ call' = Calling("init", pos + 1, FALSE)
           /\ test' = NoTest
           /\ UNCHANGED <<secure, objects, exited, asked>>
  <2>1. TestOK' /\ test'.phase = "off" /\ test'.held = 0 BY Zenon, <1>8, IdleTest
  <2>2. /\ ListsOK' /\ Compatible /\ ObjectsOK' /\ KernelMemoryIsOwned'
        /\ \A kind \in TypeKinds : \A id : IsListed(kind, id)' <=> IsListed(kind, id) \/ (kind = t.kind /\ id = t.id)
    BY Zenon, <1>6, <1>8, <2>1
  <2>3. pos \in InitTypes /\ t = InitType(pos) /\ ~ secure BY Zenon, <1>0, <1>1, <1>8 DEF CallOK
  <2>4. pos \in 1..12 /\ pos + 1 \in Nat \ {0} /\ pos + 1 \in 1..InitDone BY Zenon, <2>3, InitApart, NextStep
  <2>5. CallShape(call') /\ Called(call', "init", pos + 1, FALSE)
    BY Zenon, <1>8, <2>4, CallingShape, OneIsPositive
  <2>6. call'.op = "init" /\ call'.pos = pos + 1 /\ ~ call'.replace BY Zenon, <2>5 DEF Called
  <2>7. CallOK' BY Zenon, <1>8, <2>1, <2>3, <2>4, <2>5, <2>6 DEF CallOK
  <2>8. AskedOK' BY Zenon, <1>0, <1>8, <2>1, <2>6 DEF AskedOK, InitNeedsCleanKernel
  <2>9. ProgressOK'
    <3>1. \A n \in InitTypes : IsListed(InitType(n).kind, InitType(n).id)' <=>
                                 IsListed(InitType(n).kind, InitType(n).id) \/ n = pos
      BY <2>2, <2>3, InitTypeOK
    <3>2. \A n \in InitTypes : /\ n < pos + 1 <=> n < pos \/ n = pos
                               /\ n >= pos + 1 <=> n >= pos /\ n # pos
      BY Zenon, <2>4, NextStep, InitApart
    <3>3. \A n \in InitTypes : n < pos + 1 => IsListed(InitType(n).kind, InitType(n).id)'
      BY <3>1, <3>2, <1>0, <1>8, Zenon DEF ProgressOK
    <3>4. asked.clean => \A n \in InitTypes : n >= pos + 1 => ~ IsListed(InitType(n).kind, InitType(n).id)'
      BY <3>1, <3>2, <1>0, <1>8, Zenon DEF ProgressOK
    <3>5. ~ asked.clean => \E n \in InitTypes : n >= pos /\ IsListed(InitType(n).kind, InitType(n).id)
      <4>1. pos # 1 BY <2>3 DEF InitTypes
      <4>2. QED BY <4>1, <1>0, <1>8, Zenon DEF ProgressOK
    <3>6. ~ asked.clean => \E n \in InitTypes : n >= pos + 1 /\ IsListed(InitType(n).kind, InitType(n).id)'
      <4>1. \A n \in InitTypes : IsListed(InitType(n).kind, InitType(n).id) => n # pos BY Zenon, <1>3, <2>3
      <4>2. QED BY Zenon, <3>1, <3>2, <3>5, <4>1
    <3>7. asked.clean => modules' = LoadedBefore(pos + 1)
      <4>1. asked.clean => modules = LoadedBefore(pos) BY <1>0, <1>8, Zenon DEF ProgressOK, LoadedBefore
      <4>2. QED BY Zenon, <4>1, <1>8, <2>3, <2>4, LoadedNext
    <3>8. modules # {} /\ "crypto kernel" \in modules
      <4>1. pos # 1 BY <2>3 DEF InitTypes
      <4>2. QED BY <4>1, <1>0, <1>8, Zenon DEF ProgressOK
    <3>9. secure \in BOOLEAN BY <1>0, Zenon DEF ProgressOK
    <3>10. QED BY <1>8, <2>3, <2>6, <3>3, <3>4, <3>6, <3>7, <3>8, <3>9, Zenon DEF ProgressOK, LoadedBefore
  <2>10. QED BY Zenon, <2>1, <2>2, <2>7, <2>8, <2>9 DEF KernelKeeps, KernelInv
<1>9. QED BY Zenon, <1>5, <1>7, <1>8 DEF AddType

(* A sequence with one element set.                                        *)
ExceptAt(l, m, i, e, S) ==
    /\ m \in Seq(S) /\ Len(m) = Len(l) /\ m[i] = e
    /\ \A k \in 1..Len(l) : k # i => m[k] = l[k]

LEMMA ExceptIs ==
    ASSUME NEW S, NEW l \in Seq(S), NEW i \in 1..Len(l), NEW e \in S
    PROVE  ExceptAt(l, [l EXCEPT ![i] = e], i, e, S)
<1> DEFINE m == [l EXCEPT ![i] = e]
<1>1. m \in Seq(S) /\ Len(m) = Len(l) BY SMTT(30)
<1>2. m[i] = e BY SMTT(30)
<1>3. \A k \in 1..Len(l) : k # i => m[k] = l[k] BY SMTT(30)
<1>4. QED BY Zenon, <1>1, <1>2, <1>3 DEF ExceptAt

(* The entry is given a type that passed its own tests and the old one's.  *)
LEMMA ReplaceTypeKeeps == ASSUME KernelInv, ReplaceType PROVE KernelKeeps
<1> DEFINE t == test.type
           pos == call.pos
           l == type_list[t.kind]
           m == [l EXCEPT ![pos] = Entry(t)]
<1>0. ListsOK /\ ObjectsOK /\ TestOK /\ CallOK /\ AskedOK /\ ProgressOK /\ KernelMemoryIsOwned
  BY Zenon DEF KernelInv
<1>1. /\ call.op = "replace" /\ test.phase = "passed" /\ Return("none", FALSE)
      /\ type_list' = [type_list EXCEPT ![t.kind] = m] /\ UNCHANGED <<modules, memory>>
  BY Zenon DEF ReplaceType
<1>2. t \in Types /\ t.kind \in TypeKinds BY Zenon, <1>0, CasesAreSequences DEF TestOK
<1>3. /\ pos \in 1..Len(l) /\ l[pos].id = t.id /\ test.data = l[pos].type.cases
      /\ PassesAll(t, t.cases)
  BY Zenon, <1>0, <1>1 DEF CallOK
<1>4. PassesAll(t, l[pos].type.cases) BY Zenon, <1>0, <1>1, <1>3 DEF TestOK, PhaseOK
<1>5. type_list \in [TypeKinds -> Seq(Entries)] /\ l \in Seq(Entries) BY Zenon, <1>0, <1>2 DEF ListsOK
<1>6. Entry(t) \in Entries /\ Entry(t).id = t.id /\ Entry(t).type = t BY Zenon, <1>2 DEF Entries, Entry
<1>7. /\ m \in Seq(Entries) /\ Len(m) = Len(l) /\ m[pos] = Entry(t)
      /\ \A i \in 1..Len(l) : i # pos => m[i] = l[i]
  <2>1. ExceptAt(l, m, pos, Entry(t), Entries) BY Zenon, <1>3, <1>5, <1>6, ExceptIs
  <2>2. QED BY Zenon, <2>1 DEF ExceptAt
<1> HIDE DEF m
<1>8. type_list'[t.kind] = m /\ type_list' \in [TypeKinds -> Seq(Entries)]
      /\ \A kind \in TypeKinds : kind # t.kind => type_list'[kind] = type_list[kind]
  <2>1. type_list'[t.kind] = m BY Zenon, <1>1, <1>2, <1>5
  <2>2. type_list' \in [TypeKinds -> Seq(Entries)] BY Zenon, <1>1, <1>2, <1>5, <1>7
  <2>3. \A kind \in TypeKinds : kind # t.kind => type_list'[kind] = type_list[kind] BY Zenon, <1>1, <1>5
  <2>4. QED BY Zenon, <2>1, <2>2, <2>3
<1>9. \A i \in 1..Len(l) : m[i].id = l[i].id BY Zenon, <1>3, <1>6, <1>7
<1>10. \A kind \in TypeKinds : /\ Len(type_list'[kind]) = Len(type_list[kind])
                           /\ \A i \in 1..Len(type_list[kind]) : type_list'[kind][i].id = type_list[kind][i].id
  <2>1. TAKE kind \in TypeKinds
  <2>2. CASE kind = t.kind BY Zenon, <2>2, <1>7, <1>8, <1>9
  <2>3. CASE kind # t.kind BY Zenon, <2>3, <1>8
  <2>4. QED BY Zenon, <2>2, <2>3
<1>11. \A kind \in TypeKinds : \A i \in 1..Len(type_list[kind]) :
         /\ type_list'[kind][i].type.kind = kind
         /\ PassesAll(type_list'[kind][i].type, type_list'[kind][i].type.cases)
         /\ PassesAll(type_list'[kind][i].type, type_list[kind][i].type.cases)
  <2>1. SUFFICES ASSUME NEW kind \in TypeKinds, NEW i \in 1..Len(type_list[kind])
                 PROVE /\ type_list'[kind][i].type.kind = kind
                       /\ PassesAll(type_list'[kind][i].type, type_list'[kind][i].type.cases)
                       /\ PassesAll(type_list'[kind][i].type, type_list[kind][i].type.cases)
    BY Zenon
  <2>2. CASE kind = t.kind /\ i = pos
    <3>1. type_list'[kind][i].type = t /\ type_list[kind][i] = l[pos] BY Zenon, <2>2, <1>6, <1>7, <1>8
    <3>2. QED BY Zenon, <3>1, <2>2, <1>3, <1>4
  <2>3. CASE ~ (kind = t.kind /\ i = pos)
    <3>1. type_list'[kind][i] = type_list[kind][i] BY Zenon, <2>1, <2>3, <1>7, <1>8
    <3>2. QED BY Zenon, <3>1, <1>0 DEF ListsOK
  <2>4. QED BY Zenon, <2>2, <2>3
<1>12. ListsOK'
  <2>1. \A kind \in TypeKinds : \A i, j \in 1..Len(type_list[kind]) : type_list[kind][i].id = type_list[kind][j].id => i = j
    BY Zenon, <1>0 DEF ListsOK
  <2>2. QED BY <2>1, <1>8, <1>10, <1>11 DEF ListsOK
<1>13. Compatible
  <2>1. SUFFICES ASSUME NEW kind \in TypeKinds, NEW i \in 1..Len(type_list[kind]),
                        NEW j \in 1..Len(type_list'[kind]), type_list[kind][i].id = type_list'[kind][j].id
                 PROVE PassesAll(type_list'[kind][j].type, type_list[kind][i].type.cases)
    BY Zenon DEF Compatible
  <2>2. j \in 1..Len(type_list[kind]) /\ type_list[kind][i].id = type_list[kind][j].id BY Zenon, <2>1, <1>10
  <2>3. i = j BY Zenon, <2>2, <1>0 DEF ListsOK
  <2>4. QED BY Zenon, <2>3, <1>11
<1>14. \A kind \in TypeKinds : ListNodes(kind)' = ListNodes(kind) BY Zenon, <1>10 DEF ListNodes
<1>15. Nodes' = Nodes BY Zenon, <1>1, <1>14 DEF Nodes, TypeKinds
<1>16. IdleCall /\ Answered("none", FALSE) BY Zenon, <1>1 DEF Return, IdleCall, Answered
<1>17. CallOK' /\ call'.op = "none" /\ TestOK' /\ test'.held = 0 /\ objects' = objects /\ secure' = secure
  BY Zenon, <1>16, CallOver DEF IdleCall
<1>18. KernelMemoryIsOwned'
  <2>1. test.held = 0 BY Zenon, <1>0, <1>1, NotHolding
  <2>2. QED BY Zenon, <2>1, <1>0, <1>1, <1>15, <1>17 DEF KernelMemoryIsOwned
<1>19. AskedOK' BY Zenon, <1>0, <1>16, AnswerOK, OneIsPositive
<1>20. ProgressOK'
  <2>1. \A kind \in TypeKinds : \A id : IsListed(kind, id)' <=> IsListed(kind, id) BY Zenon, <1>10 DEF IsListed
  <2>2. \A n \in InitTypes : IsListed(InitType(n).kind, InitType(n).id) => IsListed(InitType(n).kind, InitType(n).id)'
    BY Zenon, <2>1, InitTypeOK
  <2>3. QED BY Zenon, <2>2, <1>0, <1>1, <1>17 DEF ProgressOK
<1>21. ObjectsOK' BY Zenon, <1>0, <1>17, ObjectsFrame
<1>22. QED BY Zenon, <1>12, <1>13, <1>17, <1>18, <1>19, <1>20, <1>21 DEF KernelKeeps, KernelInv

LEMMA LoadStepKeeps == ASSUME KernelInv, LoadStep PROVE KernelKeeps
BY Zenon, TypeFailedKeeps, AddTypeKeeps, TypeRefusedKeeps, TestAgainstOldKeeps, ReplaceTypeKeeps DEF LoadStep

----------------------------------------------------------------------------
(* srtp_shutdown, and the ciphers and auth functions in use.               *)

LEMMA SrtpShutdownKeeps == ASSUME KernelInv, SrtpShutdown PROVE KernelKeeps
<1>0. ListsOK /\ ObjectsOK /\ TestOK /\ CallOK /\ AskedOK /\ ProgressOK /\ KernelMemoryIsOwned
  BY Zenon DEF KernelInv
<1>1. /\ call.op = "none" /\ type_list' = EmptyLists /\ modules' = {} /\ memory' = memory \ Nodes
      /\ secure' = FALSE /\ UNCHANGED <<call, test, objects, exited, asked>>
  BY Zenon DEF SrtpShutdown, Ready
<1>2. test.phase = "off" BY Zenon, <1>0, <1>1 DEF CallOK
<1>3. \A kind \in TypeKinds : type_list'[kind] = <<>> /\ Len(type_list'[kind]) = 0 BY Zenon, <1>1 DEF EmptyLists
<1>4. ListsOK' /\ Compatible
  <2>1. type_list' \in [TypeKinds -> Seq(Entries)] BY <1>1 DEF EmptyLists
  <2>2. \A kind \in TypeKinds : 1..Len(type_list'[kind]) = {} BY <1>3
  <2>3. QED BY Zenon, <2>1, <2>2 DEF ListsOK, Compatible
<1>5. ObjectsOK' /\ TestOK' BY Zenon, <1>0, <1>1, ObjectsFrame, TestFrame
<1>6. CallOK' BY Zenon, <1>0, <1>1, <1>2 DEF CallOK
<1>7. AskedOK' BY Zenon, <1>0, <1>1 DEF AskedOK, InitNeedsCleanKernel
<1>8. ProgressOK' BY Zenon, <1>1 DEF ProgressOK
<1>9. KernelMemoryIsOwned'
  <2>1. Nodes' = {}
    <3>1. \A kind \in TypeKinds : ListNodes(kind)' = {} BY <1>3 DEF ListNodes
    <3>2. QED BY Zenon, <1>1, <3>1 DEF Nodes, TypeKinds
  <2>2. Nodes \cap UnderTest(test.held) = {} BY Zenon, NodesApart
  <2>3. (UNION {Pieces(o) : o \in objects}) \cap Nodes = {}
    <3>1. \A o \in objects : Pieces(o) \cap Nodes = {} BY Zenon, NodesApart
    <3>2. QED BY Zenon, <3>1
  <2>4. memory' = UnderTest(test.held) \cup (UNION {Pieces(o) : o \in objects})
    BY Zenon, <1>0, <1>1, <2>2, <2>3 DEF KernelMemoryIsOwned
  <2>5. QED BY Zenon, <2>1, <2>4, <1>1 DEF KernelMemoryIsOwned
<1>10. QED BY Zenon, <1>4, <1>5, <1>6, <1>7, <1>8, <1>9 DEF KernelKeeps, KernelInv

(* Only the objects in use and the memory change.                          *)
LEMMA ObjectsKeep ==
    ASSUME KernelInv, ObjectsOK', KernelMemoryIsOwned',
           UNCHANGED <<secure, type_list, modules, call, test, exited, asked>>
    PROVE KernelKeeps
<1>0. ListsOK /\ TestOK /\ CallOK /\ AskedOK /\ ProgressOK BY Zenon DEF KernelInv
<1>1. ListsOK' /\ Compatible /\ TestOK' BY Zenon, <1>0, ListsFrame, TestFrame
<1>2. CallOK'
  <2>1. AllListed' = AllListed /\ ListedType(call.pos)' = ListedType(call.pos) BY Zenon DEF AllListed, ListedType
  <2>2. QED BY Zenon, <2>1, <1>0 DEF CallOK
<1>3. AskedOK' BY Zenon, <1>0 DEF AskedOK, InitNeedsCleanKernel
<1>4. ProgressOK'
  <2>1. \A kind, id : IsListed(kind, id)' <=> IsListed(kind, id) BY Zenon, InListFrame
  <2>2. QED BY Zenon, <2>1, <1>0 DEF ProgressOK
<1>5. QED BY Zenon, <1>1, <1>2, <1>3, <1>4 DEF KernelKeeps, KernelInv

LEMMA AllocObjectKeeps ==
    ASSUME KernelInv, NEW kind \in TypeKinds, NEW name \in Objects, NEW i \in 1..Len(type_list[kind]),
           AllocObject(kind, i, name)
    PROVE KernelKeeps
<1> DEFINE t == type_list[kind][i].type
           o == [name |-> name, type |-> t]
<1>0. ListsOK /\ ObjectsOK /\ KernelMemoryIsOwned BY Zenon DEF KernelInv
<1>1. /\ \A p \in objects : p.name # name
      /\ objects' = objects \cup {o} /\ memory' = memory \cup Pieces(o)
      /\ UNCHANGED <<secure, type_list, modules, call, test, exited, asked>>
  BY Zenon DEF AllocObject
<1>2. t \in Types /\ PassesAll(t, t.cases)
  <2>1. type_list[kind] \in Seq(Entries) BY Zenon, <1>0 DEF ListsOK
  <2>2. type_list[kind][i] \in Entries BY <2>1
  <2>3. \A e \in Entries : e.type \in Types BY DEF Entries, Entry
  <2>4. QED BY Zenon, <2>2, <2>3, <1>0 DEF ListsOK
<1>3. o.name = name /\ o.type = t BY Zenon
<1> HIDE DEF o
<1>4. ObjectsOK' BY Zenon, <1>0, <1>1, <1>2, <1>3 DEF ObjectsOK
<1>5. KernelMemoryIsOwned'
  <2>1. Nodes' = Nodes BY Zenon, <1>1, NodesFrame
  <2>2. (UNION {Pieces(p) : p \in objects'}) = (UNION {Pieces(p) : p \in objects}) \cup Pieces(o) BY Zenon, <1>1
  <2>3. QED BY Zenon, <2>1, <2>2, <1>0, <1>1 DEF KernelMemoryIsOwned
<1>6. QED BY Zenon, <1>1, <1>4, <1>5, ObjectsKeep

LEMMA DeallocObjectKeeps ==
    ASSUME KernelInv, NEW o \in objects, DeallocObject(o) PROVE KernelKeeps
<1>0. ObjectsOK /\ KernelMemoryIsOwned BY Zenon DEF KernelInv
<1>1. /\ objects' = objects \ {o} /\ memory' = memory \ Pieces(o)
      /\ UNCHANGED <<secure, type_list, modules, call, test, exited, asked>>
  BY Zenon DEF DeallocObject
<1>2. ObjectsOK' BY Zenon, <1>0, <1>1 DEF ObjectsOK
<1>3. KernelMemoryIsOwned'
  <2>1. Nodes' = Nodes BY Zenon, <1>1, NodesFrame
  <2>2. Nodes \cap Pieces(o) = {} /\ UnderTest(test.held) \cap Pieces(o) = {} BY Zenon, NodesApart
  <2>3. \A p \in objects : p # o => Pieces(p) \cap Pieces(o) = {}
    <3>1. \A p \in objects : p # o => p.name # o.name BY Zenon, <1>0 DEF ObjectsOK
    <3>2. QED BY <3>1 DEF Pieces
  <2>4. (UNION {Pieces(p) : p \in objects'}) = (UNION {Pieces(p) : p \in objects}) \ Pieces(o)
    BY Zenon, <1>1, <2>3
  <2>5. QED BY Zenon, <2>1, <2>2, <2>4, <1>0, <1>1 DEF KernelMemoryIsOwned
<1>4. QED BY Zenon, <1>1, <1>2, <1>3, ObjectsKeep

----------------------------------------------------------------------------
LEMMA KernelInitInv == KernelInit => KernelInv
<1> SUFFICES ASSUME KernelInit PROVE KernelInv BY Zenon
<1>1. /\ secure = FALSE /\ type_list = EmptyLists /\ modules = {} /\ call = NoCall /\ test = NoTest
      /\ memory = {} /\ objects = {} /\ exited = FALSE /\ asked = Asked(TRUE, FALSE, "none")
  BY Zenon DEF KernelInit
<1>2. \A kind \in TypeKinds : type_list[kind] = <<>> BY Zenon, <1>1 DEF EmptyLists
<1>3. ListsOK
  <2>1. type_list \in [TypeKinds -> Seq(Entries)] BY <1>1 DEF EmptyLists
  <2>2. \A kind \in TypeKinds : 1..Len(type_list[kind]) = {} BY <1>2
  <2>3. QED BY Zenon, <2>1, <2>2 DEF ListsOK
<1>4. ObjectsOK BY Zenon, <1>1 DEF ObjectsOK
<1>5. /\ test.type = Standard[1] /\ test.data = <<>> /\ test.case = 1 /\ test.phase = "off" /\ test.held = 0
  BY Zenon, <1>1 DEF NoTest, Testing
<1>6. TestOK
  <2>1. Standard[1] \in Types BY DEF Types
  <2>2. test.held \in 0..test.type.blocks BY SMTT(30), <1>5, <2>1, CasesAreSequences
  <2>3. PhaseOK(test.type, test.data, test.case, test.phase, test.held) BY Zenon, <1>5 DEF PhaseOK, Comparing
  <2>4. test = Testing(test.type, test.data, test.case, test.phase, test.held) BY Zenon, <1>1, <1>5 DEF NoTest
  <2>5. test.case \in Nat \ {0} /\ test.phase \in Phases BY <1>5 DEF Phases
  <2>6. test.type \in Types /\ test.data = <<>> BY Zenon, <1>5, <2>1
  <2>7. QED BY Zenon, <2>2, <2>3, <2>4, <2>5, <2>6 DEF TestOK
<1>7. CallShape(call) /\ Called(call, "none", 1, FALSE) BY Zenon, <1>1, CallingShape, OneIsPositive DEF NoCall
<1>8. CallOK BY Zenon, <1>5, <1>7 DEF CallOK, Called
<1>9. AskedOK
  <2>1. asked.clean = TRUE /\ asked.faulted = FALSE /\ asked.answer = "none" BY Zenon, <1>1 DEF Asked
  <2>2. asked = Asked(asked.clean, asked.faulted, asked.answer) BY Zenon, <1>1, <2>1
  <2>3. QED BY Zenon, <1>1, <1>7, <2>1, <2>2 DEF AskedOK, InitNeedsCleanKernel, Called
<1>10. ProgressOK BY Zenon, <1>1, <1>7 DEF ProgressOK, Called
<1>11. KernelMemoryIsOwned
  <2>1. \A kind \in TypeKinds : ListNodes(kind) = {} BY <1>2 DEF ListNodes
  <2>2. Nodes = {} BY Zenon, <1>1, <2>1 DEF Nodes, TypeKinds
  <2>3. QED BY Zenon, <1>1, <1>5, <2>2, UnderTestNone DEF KernelMemoryIsOwned
<1>12. QED BY Zenon, <1>3, <1>4, <1>6, <1>8, <1>9, <1>10, <1>11 DEF KernelInv

LEMMA KernelStepKeeps == ASSUME KernelInv, KernelNext PROVE KernelKeeps
BY Zenon, SrtpInitKeeps, SrtpShutdownKeeps, LoadTypeKeeps, AllocObjectKeeps, DeallocObjectKeeps,
   TestStepKeeps, InitStepKeeps, StatusStepKeeps, LoadStepKeeps
   DEF KernelNext

LEMMA KernelStutterKeeps == ASSUME KernelInv, UNCHANGED kernelVars PROVE KernelKeeps
<1>1. UNCHANGED <<secure, type_list, modules, call, test, memory, objects, exited, asked>>
  BY Zenon DEF kernelVars
<1>2. ObjectsOK' /\ KernelMemoryIsOwned' BY Zenon, <1>1, ObjectsFrame, MemoryFrame DEF KernelInv
<1>3. QED BY Zenon, <1>1, <1>2, ObjectsKeep

LEMMA KernelInvHolds == KernelSpec => []KernelInv /\ [][Compatible]_kernelVars
<1>1. KernelInv /\ [KernelNext]_kernelVars => KernelKeeps BY Zenon, KernelStepKeeps, KernelStutterKeeps
<1>2. KernelInv /\ [KernelNext]_kernelVars => KernelInv' BY Zenon, <1>1 DEF KernelKeeps
<1>3. KernelInv /\ [KernelNext]_kernelVars => [Compatible]_kernelVars BY Zenon, <1>1 DEF KernelKeeps
<1>4. QED BY <1>2, <1>3, KernelInitInv, PTL DEF KernelSpec

LEMMA KernelInvTyped == KernelInv => KernelTypeOK
<1> SUFFICES ASSUME KernelInv PROVE KernelTypeOK BY Zenon
<1>0. ListsOK /\ ObjectsOK /\ TestOK /\ CallOK /\ AskedOK /\ ProgressOK BY Zenon DEF KernelInv
<1>1. ASSUME NEW kind \in TypeKinds, NEW i \in 1..Len(type_list[kind])
      PROVE type_list[kind][i].type \in Types /\ type_list[kind][i].type.kind = kind
  <2>1. type_list[kind] \in Seq(Entries) BY Zenon, <1>0 DEF ListsOK
  <2>2. type_list[kind][i] \in Entries BY SMTT(30), <2>1
  <2>3. \A e \in Entries : e.type \in Types BY SMTT(30) DEF Entries, Entry
  <2>4. QED BY Zenon, <2>2, <2>3, <1>0 DEF ListsOK
<1>2. /\ test.type \in Types /\ test.case \in Nat \ {0} /\ test.phase \in Phases
      /\ test.held \in 0..test.type.blocks
  BY Zenon, <1>0 DEF TestOK
<1>3. CallShape(call) BY Zenon, <1>0 DEF CallOK
<1>4. secure \in BOOLEAN BY <1>0, Zenon DEF ProgressOK
<1>5. \A o \in objects : o.name \in Objects /\ o.type \in Types BY Zenon, <1>0 DEF ObjectsOK
<1>6. /\ exited \in BOOLEAN /\ asked.clean \in BOOLEAN /\ asked.faulted \in BOOLEAN
      /\ asked.answer \in {"none", "pending", "ok", "fail"}
  BY <1>0, ZenonT(30) DEF AskedOK
<1>7. QED BY <1>1, <1>2, <1>3, <1>4, <1>5, <1>6, Zenon DEF KernelTypeOK, CallShape

LEMMA KernelInvTested == KernelInv => SecureIsTested
<1> SUFFICES ASSUME KernelInv PROVE SecureIsTested BY Zenon
<1>0. ListsOK /\ ObjectsOK /\ ProgressOK BY Zenon DEF KernelInv
<1>1. ASSUME secure, NEW n \in 1..5
      PROVE \E i \in 1..Len(type_list[Standard[n].kind]) : type_list[Standard[n].kind][i].id = Standard[n].id
  <2>1. \A m \in InitTypes : IsListed(InitType(m).kind, InitType(m).id) BY <1>0, <1>1, Zenon DEF ProgressOK
  <2>2. \E m \in InitTypes : InitType(m) = Standard[n]
    <3>1. /\ InitType(6) = Standard[1] /\ InitType(7) = Standard[2] /\ InitType(8) = Standard[3]
          /\ InitType(10) = Standard[4] /\ InitType(11) = Standard[5]
      BY DEF InitType
    <3>2. QED BY <3>1 DEF InitTypes
  <2>3. QED BY Zenon, <2>1, <2>2 DEF IsListed
<1>2. QED BY Zenon, <1>0, <1>1 DEF SecureIsTested, ListsOK, ObjectsOK

(* The kernel's state stays well typed.                                    *)
THEOREM KernelTypeCorrect == KernelSpec => []KernelTypeOK
BY KernelInvHolds, KernelInvTyped, PTL

(* Whatever allocation, cipher call or comparison fails in a self-test, a  *)
(* load, a replacement or srtp_init, and wherever, srtp_cipher_type_test,  *)
(* srtp_auth_type_test and the loaders lose no memory and free none in     *)
(* use.                                                                    *)
THEOREM KernelMemoryOwned == KernelSpec => []KernelMemoryIsOwned
<1>1. KernelInv => KernelMemoryIsOwned BY Zenon DEF KernelInv
<1>2. QED BY <1>1, KernelInvHolds, PTL

(* srtp_crypto_kernel_alloc_cipher and _alloc_auth hand out only types     *)
(* that have test data and compute all of it correctly, and no sequence of *)
(* loads and replacements takes a standard id off a secure kernel's lists  *)
(* or lists an id twice.                                                   *)
THEOREM KernelSecureIsTested == KernelSpec => []SecureIsTested
BY KernelInvHolds, KernelInvTested, PTL

(* srtp_init succeeds only on a clean kernel and there fails, or ends the  *)
(* process in srtp_crypto_kernel_status, only where a call failed: what a  *)
(* failed srtp_init leaves behind makes every later one fail until         *)
(* srtp_shutdown.                                                          *)
THEOREM KernelInitNeedsCleanKernel == KernelSpec => []InitNeedsCleanKernel
<1>1. KernelInv => InitNeedsCleanKernel BY Zenon DEF KernelInv, AskedOK
<1>2. QED BY <1>1, KernelInvHolds, PTL

(* srtp_replace_cipher_type and srtp_replace_auth_type put in the place of *)
(* a type only one that passes the test data of the type it replaces.      *)
THEOREM KernelReplacementIsCompatible == KernelSpec => ReplacementIsCompatible
<1>1. Compatible <=> \A kind \in TypeKinds : \A i \in 1..Len(type_list[kind]), j \in 1..Len(type_list'[kind]) :
         type_list[kind][i].id = type_list'[kind][j].id =>
            PassesAll(type_list'[kind][j].type, type_list[kind][i].type.cases)
  BY Zenon DEF Compatible
<1>2. QED BY <1>1, KernelInvHolds, PTL DEF ReplacementIsCompatible
=============================================================================
