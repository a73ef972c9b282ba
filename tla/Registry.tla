------------------------------ MODULE Registry ------------------------------
(***************************************************************************)
(* The handler and module registries of src/main/control.c.               *)
(*                                                                         *)
(* Constructors (RTE_INIT) register handlers and modules before main(), in *)
(* an order fixed by the link and not by the source: any order.  Both      *)
(* lists are LIST_INSERT_HEAD lists.  main() then runs modules_init(),     *)
(* serves requests, and on shutdown runs modules_fini().                   *)
(*                                                                         *)
(* qsort() is not stable: the C standard leaves the order of elements that *)
(* compare equal unspecified, so the sort may return any permutation that  *)
(* the comparator orders.                                                  *)
(***************************************************************************)
EXTENDS Integers, SequencesExt, Functions

CONSTANTS
    Mods,        \* modules registered with br_register_module()
    InitPrio,    \* module -> init_prio
    FiniPrio,    \* module -> fini_prio
    WithInit,    \* modules whose init callback is not NULL
    WithFini,    \* modules whose fini callback is not NULL
    Handlers,    \* handlers registered with br_register_api_handler()
    ReqType,     \* handler -> request_type
    IntBits      \* the width of int

ASSUME WithInit \subseteq Mods /\ WithFini \subseteq Mods

VARIABLES
    modules,     \* the modules list, head first
    handlers,    \* the handlers list, head first
    phase,       \* "ctor" | "running" | "done" | "aborted"
    calls        \* the init and fini callbacks called, in order

vars == <<modules, handlers, phase, calls>>

-----------------------------------------------------------------------------

\* An int result: a difference that does not fit wraps, as the signed
\* subtraction the compiler emits does.
ToInt(x) ==
    LET half == 2^(IntBits - 1) IN ((x + half) % (2 * half)) - half

\* Mutant: the comparator subtracts the other way round.
module_init_prio_order_rev(a, b) == ToInt(InitPrio[b] - InitPrio[a])

\* module_init_prio_order() and module_fini_prio_order(): the comparators
\* return the difference of two int priorities.
module_init_prio_order(a, b) == ToInt(InitPrio[a] - InitPrio[b])

module_fini_prio_order(a, b) == ToInt(FiniPrio[a] - FiniPrio[b])

\* The comparator modules_init() ("init") or modules_fini() ("fini") uses.
Compare(kind, a, b) ==
    IF kind = "init" THEN module_init_prio_order(a, b) ELSE module_fini_prio_order(a, b)

\* The comparator orders the set S: it is antisymmetric and transitive,
\* as qsort() requires of it.
Consistent(S, kind) ==
    /\ \A a, b \in S : (Compare(kind, a, b) <= 0) = (Compare(kind, b, a) >= 0)
    /\ \A a, b, c \in S :
          (Compare(kind, a, b) <= 0 /\ Compare(kind, b, c) <= 0) => Compare(kind, a, c) <= 0

\* The results qsort(s, cmp) may have: the permutations the comparator
\* orders, or, when it is not consistent, any permutation.
QSort(s, kind) ==
    LET perms == {[i \in DOMAIN s |-> s[p[i]]] :
                     p \in {q \in [DOMAIN s -> DOMAIN s] : IsInjective(q)}}
    IN  IF Consistent(Range(s), kind)
        THEN {t \in perms : \A i, j \in DOMAIN t : i < j => Compare(kind, t[i], t[j]) <= 0}
        ELSE perms

\* The callbacks a loop over the sorted modules calls: the non-NULL ones.
CallAll(s, kind, with) ==
    [i \in 1..Len(SelectSeq(s, LAMBDA m : m \in with)) |->
        <<kind, SelectSeq(s, LAMBDA m : m \in with)[i]>>]

\* lookup_api_handler(): the first handler of the list with the type.
lookup_api_handler(t) ==
    LET hs == SelectSeq(handlers, LAMBDA h : ReqType[h] = t)
    IN IF hs = <<>> THEN "none" ELSE Head(hs)

-----------------------------------------------------------------------------

\* br_register_module(): LIST_INSERT_HEAD.
br_register_module(m) ==
    /\ phase = "ctor"
    /\ ~Contains(modules, m)
    /\ modules' = <<m>> \o modules
    /\ UNCHANGED <<handlers, phase, calls>>

\* Mutant: the duplicate check is missing.
br_register_api_handler_nodup(h) ==
    /\ phase = "ctor"
    /\ ~Contains(handlers, h)
    /\ handlers' = <<h>> \o handlers
    /\ UNCHANGED <<modules, phase, calls>>

\* br_register_api_handler(): ABORT on a type already registered, else
\* LIST_INSERT_HEAD.
br_register_api_handler(h) ==
    /\ phase = "ctor"
    /\ ~Contains(handlers, h)
    /\ IF \E g \in Range(handlers) : ReqType[g] = ReqType[h]
       THEN phase' = "aborted" /\ UNCHANGED handlers
       ELSE handlers' = <<h>> \o handlers /\ UNCHANGED phase
    /\ UNCHANGED <<modules, calls>>

\* modules_init(), once every constructor has run.
modules_init ==
    /\ phase = "ctor"
    /\ Range(modules) = Mods /\ Range(handlers) = Handlers
    /\ \E s \in QSort(modules, "init") :
          calls' = calls \o CallAll(s, "init", WithInit)
    /\ phase' = "running"
    /\ UNCHANGED <<modules, handlers>>

\* modules_fini(), on the way out of main().
modules_fini ==
    /\ phase = "running"
    /\ \E s \in QSort(modules, "fini") :
          calls' = calls \o CallAll(s, "fini", WithFini)
    /\ phase' = "done"
    /\ UNCHANGED <<modules, handlers>>

Init ==
    /\ modules = <<>>
    /\ handlers = <<>>
    /\ phase = "ctor"
    /\ calls = <<>>

Next ==
    \/ \E m \in Mods : br_register_module(m)
    \/ \E h \in Handlers : br_register_api_handler(h)
    \/ modules_init
    \/ modules_fini

Spec == Init /\ [][Next]_vars

-----------------------------------------------------------------------------
(* Properties.                                                             *)

\* Every variable holds a value of its type.
TypeOK ==
    /\ modules \in Seq(Mods) /\ handlers \in Seq(Handlers)
    /\ phase \in {"ctor", "running", "done", "aborted"}
    /\ calls \in Seq({"init", "fini"} \X Mods)

InitCalls == SelectSeq(calls, LAMBDA x : x[1] = "init")
FiniCalls == SelectSeq(calls, LAMBDA x : x[1] = "fini")

\* modules_init() calls each non-NULL init once, in non-decreasing
\* init_prio, and modules_fini() each non-NULL fini once, in non-decreasing
\* fini_prio, after every init: whatever order the constructors ran in.
ModuleOrder ==
    /\ phase \in {"running", "done"} =>
          /\ Len(InitCalls) = Cardinality(WithInit)
          /\ {x[2] : x \in Range(InitCalls)} = WithInit
          /\ \A i, j \in DOMAIN InitCalls :
                i < j => InitPrio[InitCalls[i][2]] <= InitPrio[InitCalls[j][2]]
    /\ phase = "done" =>
          /\ Len(FiniCalls) = Cardinality(WithFini)
          /\ {x[2] : x \in Range(FiniCalls)} = WithFini
          /\ \A i, j \in DOMAIN FiniCalls :
                i < j => FiniPrio[FiniCalls[i][2]] <= FiniPrio[FiniCalls[j][2]]
    /\ \A i, j \in DOMAIN calls : calls[i][1] = "fini" /\ i < j => calls[j][1] = "fini"

\* Every registered handler is the one lookup_api_handler() finds for its
\* request type: no registration shadows another.
HandlersReachable == \A h \in Range(handlers) : lookup_api_handler(ReqType[h]) = h

\* Modules of equal init_prio are initialised in the order of the modules
\* list (the spec asks for a stable sort).
InitStable ==
    \A i, j \in DOMAIN InitCalls :
        LET a == InitCalls[i][2]  b == InitCalls[j][2] IN
        (i < j /\ InitPrio[a] = InitPrio[b]) =>
            \E k, l \in DOMAIN modules : k < l /\ modules[k] = a /\ modules[l] = b

=============================================================================
