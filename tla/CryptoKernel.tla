---------------------------- MODULE CryptoKernel ----------------------------
(***************************************************************************)
(* The crypto kernel of libsrtp (crypto/kernel/crypto_kernel.c) with the   *)
(* self-tests of cipher and authentication types (crypto/cipher/cipher.c,  *)
(* crypto/hash/auth.c) and srtp_init and srtp_shutdown (srtp/srtp.c), in   *)
(* the default build, without GCM.  A step is one module or type loaded,   *)
(* one allocation of an object under test or one direction of one test     *)
(* case; any call in it may fail.                                          *)
(***************************************************************************)
EXTENDS Integers, Sequences

CONSTANTS Standard,         \* the types srtp_crypto_kernel_init loads, in order
          Others,           \* types an application loads or replaces
          NUM_RAND_TESTS,
          Objects           \* bound: names of the ciphers and auth functions in use

(* A type: [name, kind, id, blocks, cases, passes], where blocks is how    *)
(* many pieces of memory an object of it has, cases its test data, and     *)
(* passes the test cases it computes correctly ("random": it decrypts what *)
(* it encrypts).                                                           *)
TypeKinds == {"cipher", "auth"}

Types == {Standard[i] : i \in 1..5} \cup Others

(* The type has test data and computes all of it correctly.                *)
PassesAll(t, data) ==
    /\ data # <<>>
    /\ \A i \in 1..Len(data) : data[i] \in t.passes
    /\ t.kind = "cipher" => "random" \in t.passes

(* libsrtp's own types pass their tests, and each has an id of its own.    *)
ASSUME KernelAssumption ==
    /\ NUM_RAND_TESTS \in Nat \ {0}
    /\ \A t \in Types : t.kind \in TypeKinds /\ t.blocks \in Nat \ {0} /\ t.cases \in Seq({t.cases[i] : i \in 1..Len(t.cases)})
    /\ \A i \in 1..5 : PassesAll(Standard[i], Standard[i].cases)
    /\ \A i, j \in 1..5 : Standard[i].kind = Standard[j].kind /\ Standard[i].id = Standard[j].id => i = j

VARIABLES secure,           \* crypto_kernel.state
          type_list,        \* cipher_type_list and auth_type_list
          modules,          \* the names in debug_module_list
          call,             \* the call in progress: [op, pos, replace]
          test,             \* the test in progress: [type, data, case, phase, held]
          memory,           \* pieces of memory allocated and not freed
          objects,          \* the ciphers and auths in use: [name, type]
          exited,           \* the process ended in srtp_crypto_kernel_status
          asked             \* ghost: the last srtp_init: [clean, faulted, answer]

kernelVars == <<secure, type_list, modules, call, test, memory, objects, exited, asked>>

Calling(op, pos, replace) == [op |-> op, pos |-> pos, replace |-> replace]

Testing(t, data, case, phase, held) ==
    [type |-> t, data |-> data, case |-> case, phase |-> phase, held |-> held]

Asked(clean, faulted, answer) == [clean |-> clean, faulted |-> faulted, answer |-> answer]

NoCall == Calling("none", 1, FALSE)

NoTest == Testing(Standard[1], <<>>, 1, "off", 0)

(* Names of pieces of memory: a list node, and the pieces of an object.    *)
Node(kind, id) == <<kind, id, 0>>

UnderTest(n) == {<<"test", "object", b>> : b \in 1..n}

Pieces(o) == {<<"object", o.name, b>> : b \in 1..o.type.blocks}

----------------------------------------------------------------------------
(* srtp_cipher_type_test and srtp_auth_type_test.  Test data that is not   *)
(* there fails.  The cases after the last of the data are the random ones, *)
(* of ciphers only.                                                        *)

(* Mutant: a type without test data passes. *)
Start_Untested(t, data) == Testing(t, data, 1, IF data = <<>> THEN "passed" ELSE "alloc", 0)

Start(t, data) == Testing(t, data, 1, IF data = <<>> THEN "failed" ELSE "alloc", 0)

Comparing == {"encrypt", "decrypt", "compute", "random"}

(* The phase after the allocation.                                         *)
First(t, data, case) ==
    IF t.kind = "auth" THEN "compute" ELSE IF case <= Len(data) THEN "encrypt" ELSE "random"

(* The results are those of the test case, or what was encrypted.          *)
Works == IF test.phase = "random" THEN "random" \in test.type.passes
         ELSE test.data[test.case] \in test.type.passes

(* The object is deallocated after each test case, and after the last of   *)
(* the random ones.                                                        *)
LastOfCase == test.phase \in {"decrypt", "compute"} \/ test.case = Len(test.data) + NUM_RAND_TESTS

LastCase == test.case = Len(test.data) + IF test.type.kind = "auth" THEN 0 ELSE NUM_RAND_TESTS

NextPhase == CASE test.phase = "encrypt" -> "decrypt"
               [] test.phase = "random" -> IF LastCase THEN "passed" ELSE "random"
               [] OTHER -> IF LastCase THEN "passed" ELSE "alloc"

InTest == UNCHANGED <<secure, type_list, modules, call, objects, exited>>

(* One of the pieces of the object under test.                             *)
TestAlloc ==
    /\ test.phase = "alloc"
    /\ LET n == test.held + 1
           phase == IF n = test.type.blocks THEN First(test.type, test.data, test.case) ELSE "alloc"
       IN /\ memory' = memory \cup UnderTest(n)
          /\ test' = Testing(test.type, test.data, test.case, phase, n)
    /\ UNCHANGED asked
    /\ InTest

TestPasses ==
    /\ test.phase \in Comparing
    /\ Works
    /\ memory' = IF LastOfCase THEN memory \ UnderTest(test.held) ELSE memory
    /\ test' = Testing(test.type, test.data, IF test.phase = "encrypt" THEN test.case ELSE test.case + 1,
                       NextPhase, IF LastOfCase THEN 0 ELSE test.held)
    /\ UNCHANGED asked
    /\ InTest

(* A test that fails deallocates its object, also one that is allocated    *)
(* only in part, and returns.                                              *)
TestFails ==
    /\ memory' = memory \ UnderTest(test.held)
    /\ test' = Testing(test.type, test.data, test.case, "failed", 0)
    /\ InTest

TestMismatch ==
    /\ test.phase \in Comparing
    /\ ~ Works
    /\ TestFails
    /\ UNCHANGED asked

(* A call of the test fails.                                               *)
TestFaults ==
    /\ test.phase \in Comparing \cup {"alloc"}
    /\ TestFails
    /\ asked' = Asked(asked.clean, TRUE, asked.answer)

----------------------------------------------------------------------------
(* The end of a call.  answer is what srtp_init returned.                  *)
Return(answer, fault) ==
    /\ call' = NoCall
    /\ test' = NoTest
    /\ asked' = IF asked.answer = "pending" THEN Asked(asked.clean, asked.faulted \/ fault, answer)
                ELSE asked
    /\ UNCHANGED <<secure, exited, objects>>

Refused(fault) == Return("fail", fault) /\ UNCHANGED <<type_list, modules, memory>>

(* srtp_crypto_kernel_load_debug_module, where it succeeds.                *)
AddModule(name) ==
    /\ name \notin modules
    /\ modules' = modules \cup {name}
    /\ memory' = memory \cup {Node("module", name)}
    /\ UNCHANGED type_list

(* It fails on a name that is there already, or has no memory.             *)
ModuleRefused(name) == Refused(name \notin modules)

(* What srtp_crypto_kernel_init loads, in order: debug modules, ...        *)
InitModules == {1, 2, 3, 4, 5, 9, 12}

InitModule(n) ==
    CASE n = 1 -> "crypto kernel" [] n = 2 -> "auth func" [] n = 3 -> "cipher" [] n = 4 -> "stat test"
      [] n = 5 -> "alloc" [] n = 9 -> "aes icm" [] n = 12 -> "hmac sha-1"

(* ... and types.                                                          *)
InitTypes == {6, 7, 8, 10, 11}

InitType(n) == Standard[IF n < 9 THEN n - 5 ELSE n - 6]

InitDone == 13

NewIds == \A kind \in TypeKinds : \A i \in 1..Len(type_list[kind]), j \in 1..5 :
              kind = Standard[j].kind => type_list[kind][i].id # Standard[j].id

(* srtp_init can succeed: the kernel is secure and lacks only the srtp     *)
(* module, or has none of what is to be loaded.                            *)
Clean == IF secure THEN "srtp" \notin modules ELSE modules = {} /\ NewIds

Ready == call.op = "none" /\ ~ exited

(* srtp_init: srtp_crypto_kernel_init runs the self-tests again if the     *)
(* kernel is secure, else loads modules and types.                         *)
SrtpInit ==
    /\ Ready
    /\ call' = Calling(IF secure THEN "status" ELSE "init", 1, FALSE)
    /\ asked' = Asked(Clean, FALSE, "pending")
    /\ UNCHANGED <<secure, type_list, modules, test, memory, objects, exited>>

LoadInitModule ==
    /\ call.op = "init"
    /\ call.pos \in InitModules
    /\ \/ /\ AddModule(InitModule(call.pos))
          /\ call' = Calling("init", call.pos + 1, FALSE)
          /\ UNCHANGED <<secure, test, objects, exited, asked>>
       \/ ModuleRefused(InitModule(call.pos))

LoadInitType ==
    /\ call.op = "init"
    /\ call.pos \in InitTypes
    /\ test.phase = "off"
    /\ test' = Start(InitType(call.pos), InitType(call.pos).cases)
    /\ UNCHANGED <<secure, type_list, modules, call, memory, objects, exited, asked>>

BecomeSecure ==
    /\ call.op = "init"
    /\ call.pos = InitDone
    /\ secure' = TRUE
    /\ call' = Calling("srtp", 1, FALSE)
    /\ UNCHANGED <<type_list, modules, test, memory, objects, exited, asked>>

(* The end of srtp_init.                                                   *)
LoadSrtpModule ==
    /\ call.op = "srtp"
    /\ \/ AddModule("srtp") /\ Return("ok", FALSE)
       \/ ModuleRefused("srtp")

(* srtp_crypto_kernel_status: the self-test of every listed type, ciphers  *)
(* first; one that fails ends the process.                                 *)
AllListed == Len(type_list["cipher"]) + Len(type_list["auth"])

ListedType(n) ==
    LET m == Len(type_list["cipher"])
    IN IF n <= m THEN type_list["cipher"][n].type ELSE type_list["auth"][n - m].type

StatusTest ==
    /\ call.op = "status"
    /\ call.pos <= AllListed
    /\ test.phase = "off"
    /\ test' = Start(ListedType(call.pos), ListedType(call.pos).cases)
    /\ UNCHANGED <<secure, type_list, modules, call, memory, objects, exited, asked>>

StatusPassed ==
    /\ call.op = "status"
    /\ test.phase = "passed"
    /\ test' = NoTest
    /\ call' = Calling("status", call.pos + 1, FALSE)
    /\ UNCHANGED <<secure, type_list, modules, memory, objects, exited, asked>>

StatusFailed ==
    /\ call.op = "status"
    /\ test.phase = "failed"
    /\ exited' = TRUE
    /\ UNCHANGED <<secure, type_list, modules, call, test, memory, objects, asked>>

StatusDone ==
    /\ call.op = "status"
    /\ call.pos > AllListed
    /\ call' = Calling("srtp", 1, FALSE)
    /\ UNCHANGED <<secure, type_list, modules, test, memory, objects, exited, asked>>

(* srtp_crypto_kernel_load_cipher_type, srtp_replace_cipher_type and the   *)
(* two for authentication, of a type under its own id: any other is        *)
(* refused.                                                                *)
LoadType(t, replace) ==
    /\ Ready
    /\ call' = Calling("load", 1, replace)
    /\ test' = Start(t, t.cases)
    /\ asked' = Asked(TRUE, FALSE, "none")
    /\ UNCHANGED <<secure, type_list, modules, memory, objects, exited>>

TypeFailed ==
    /\ call.op \in {"init", "load", "replace"}
    /\ test.phase = "failed"
    /\ Refused(FALSE)

Entry(t) == [id |-> t.id, type |-> t]

(* The place of the first entry the walk down the list stops at: the same  *)
(* id, or the same type under another id.                                  *)
Matches(e, t) == e.id = t.id \/ e.type = t

Found(t) ==
    {i \in 1..Len(type_list[t.kind]) :
        /\ Matches(type_list[t.kind][i], t)
        /\ \A j \in 1..(i - 1) : ~ Matches(type_list[t.kind][j], t)}

(* After the self-test: a type that is not there goes to the head of the   *)
(* list, ...                                                               *)
AddType ==
    LET t == test.type
    IN /\ call.op \in {"init", "load"}
       /\ test.phase = "passed"
       /\ Found(t) = {}
       /\ \/ /\ type_list' = [type_list EXCEPT ![t.kind] = <<Entry(t)>> \o @]
             /\ memory' = memory \cup {Node(t.kind, t.id)}
             /\ UNCHANGED modules
             /\ \/ /\ call.op = "load"
                   /\ Return("none", FALSE)
                \/ /\ call.op = "init"
                   /\ call' = Calling("init", call.pos + 1, FALSE)
                   /\ test' = NoTest
                   /\ UNCHANGED <<secure, objects, exited, asked>>
          \/ Refused(TRUE)

(* ... one that is there is refused, ...                                   *)
TypeRefused ==
    LET t == test.type
    IN /\ call.op \in {"init", "load"}
       /\ test.phase = "passed"
       /\ \E i \in Found(t) : type_list[t.kind][i].id # t.id \/ ~ call.replace
       /\ Refused(FALSE)

(* ... or to be replaced, if the new one passes the test data of the old.  *)
TestAgainstOld ==
    LET t == test.type
    IN /\ call.op \in {"init", "load"}
       /\ test.phase = "passed"
       /\ \E i \in Found(t) :
            /\ type_list[t.kind][i].id = t.id /\ call.replace
            /\ test' = Start(t, type_list[t.kind][i].type.cases)
            /\ call' = Calling("replace", i, TRUE)
       /\ UNCHANGED <<secure, type_list, modules, memory, objects, exited, asked>>

ReplaceType ==
    /\ call.op = "replace"
    /\ test.phase = "passed"
    /\ type_list' = [type_list EXCEPT ![test.type.kind] = [@ EXCEPT ![call.pos] = Entry(test.type)]]
    /\ Return("none", FALSE)
    /\ UNCHANGED <<modules, memory>>

(* srtp_shutdown: srtp_crypto_kernel_shutdown frees the three lists.       *)
ListNodes(kind) == {Node(kind, type_list[kind][i].id) : i \in 1..Len(type_list[kind])}

Nodes == ListNodes("cipher") \cup ListNodes("auth") \cup {Node("module", name) : name \in modules}

EmptyLists == [kind \in TypeKinds |-> <<>>]

SrtpShutdown ==
    /\ Ready
    /\ type_list' = EmptyLists
    /\ modules' = {}
    /\ memory' = memory \ Nodes
    /\ secure' = FALSE
    /\ UNCHANGED <<call, test, objects, exited, asked>>

(* srtp_crypto_kernel_alloc_cipher and srtp_crypto_kernel_alloc_auth where *)
(* they succeed; one that fails gives back what it has allocated.          *)
AllocObject(kind, i, name) ==
    LET o == [name |-> name, type |-> type_list[kind][i].type]
    IN /\ Ready
       /\ secure
       /\ \A p \in objects : p.name # name
       /\ \A j \in 1..(i - 1) : type_list[kind][j].id # type_list[kind][i].id
       /\ objects' = objects \cup {o}
       /\ memory' = memory \cup Pieces(o)
       /\ UNCHANGED <<secure, type_list, modules, call, test, exited, asked>>

(* srtp_cipher_dealloc and srtp_auth_dealloc.                              *)
DeallocObject(o) ==
    /\ Ready
    /\ objects' = objects \ {o}
    /\ memory' = memory \ Pieces(o)
    /\ UNCHANGED <<secure, type_list, modules, call, test, exited, asked>>

KernelInit ==
    /\ secure = FALSE
    /\ type_list = EmptyLists
    /\ modules = {}
    /\ call = NoCall
    /\ test = NoTest
    /\ memory = {}
    /\ objects = {}
    /\ exited = FALSE
    /\ asked = Asked(TRUE, FALSE, "none")

TestStep == TestAlloc \/ TestPasses \/ TestMismatch \/ TestFaults

InitStep == LoadInitModule \/ LoadInitType \/ BecomeSecure \/ LoadSrtpModule

StatusStep == StatusTest \/ StatusPassed \/ StatusFailed \/ StatusDone

LoadStep == TypeFailed \/ AddType \/ TypeRefused \/ TestAgainstOld \/ ReplaceType

KernelNext ==
    \/ SrtpInit
    \/ SrtpShutdown
    \/ \E t \in Others, replace \in BOOLEAN : LoadType(t, replace)
    \/ \E kind \in TypeKinds, name \in Objects :
         \E i \in 1..Len(type_list[kind]) : AllocObject(kind, i, name)
    \/ \E o \in objects : DeallocObject(o)
    \/ TestStep
    \/ InitStep
    \/ StatusStep
    \/ LoadStep

KernelSpec == KernelInit /\ [][KernelNext]_kernelVars

----------------------------------------------------------------------------
Phases == Comparing \cup {"off", "alloc", "passed", "failed"}

KernelTypeOK ==
    /\ secure \in BOOLEAN
    /\ \A kind \in TypeKinds : \A i \in 1..Len(type_list[kind]) :
         type_list[kind][i].type \in Types /\ type_list[kind][i].type.kind = kind
    /\ call.op \in {"none", "init", "status", "srtp", "load", "replace"}
    /\ call.pos \in Nat \ {0} /\ call.replace \in BOOLEAN
    /\ test.type \in Types /\ test.case \in Nat \ {0} /\ test.phase \in Phases
    /\ test.held \in 0..test.type.blocks
    /\ \A o \in objects : o.name \in Objects /\ o.type \in Types
    /\ exited \in BOOLEAN
    /\ asked.clean \in BOOLEAN /\ asked.faulted \in BOOLEAN
    /\ asked.answer \in {"none", "pending", "ok", "fail"}

(* Whatever call of a self-test or of a load fails, what the test had      *)
(* allocated is given back: the memory in use is one node per list entry,  *)
(* the object under test and the ciphers and auth functions in use.        *)
KernelMemoryIsOwned ==
    memory = Nodes \cup UnderTest(test.held) \cup (UNION {Pieces(o) : o \in objects})

(* Every listed type, and the type of every cipher or auth function in     *)
(* use, has test data and computes all of it correctly; no id is listed    *)
(* twice; in the secure state, the only one in which ciphers are handed    *)
(* out, every standard id is there.                                        *)
SecureIsTested ==
    /\ \A kind \in TypeKinds : \A i \in 1..Len(type_list[kind]) :
         /\ PassesAll(type_list[kind][i].type, type_list[kind][i].type.cases)
         /\ \A j \in 1..Len(type_list[kind]) : type_list[kind][i].id = type_list[kind][j].id => i = j
    /\ \A o \in objects : PassesAll(o.type, o.type.cases)
    /\ secure => \A n \in 1..5 : \E i \in 1..Len(type_list[Standard[n].kind]) :
                   type_list[Standard[n].kind][i].id = Standard[n].id

(* srtp_init succeeds only on a kernel that has none of what it loads, or  *)
(* is secure and lacks only the srtp module; on any other, one a failed    *)
(* srtp_init left half filled included, it fails until srtp_shutdown.  On  *)
(* such a kernel it fails, or ends the process, only where a call did.     *)
InitNeedsCleanKernel ==
    /\ asked.answer = "ok" => asked.clean
    /\ asked.answer = "fail" /\ asked.clean => asked.faulted
    /\ exited => asked.faulted

(* A type is replaced only by one that also passes its test data.          *)
ReplacementIsCompatible ==
    [][\A kind \in TypeKinds : \A i \in 1..Len(type_list[kind]), j \in 1..Len(type_list'[kind]) :
         type_list[kind][i].id = type_list'[kind][j].id =>
            PassesAll(type_list'[kind][j].type, type_list[kind][i].type.cases)]_kernelVars
=============================================================================
