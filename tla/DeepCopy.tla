------------------------------ MODULE DeepCopy ------------------------------
(***************************************************************************)
(* The deep-copy functions generated for the operator's API types          *)
(* (src/integrity-shield-operator/api/v1alpha1/zz_generated.deepcopy.go).  *)
(*                                                                         *)
(* Only reference-typed fields matter to a copy: "*out = *in" copies every *)
(* value field and every pointer, map and slice header, after which each   *)
(* function gives fresh storage to the reference fields it names, under    *)
(* "if in.X != nil".  An object is therefore a function from the names of  *)
(* its reference fields (a path such as "Spec.Server.SelectorLabels") to   *)
(* Nil or a heap cell; the heap is a sequence of cell contents, and new()  *)
(* or make() appends a cell.  The DeepCopyInto of the k8s types a field    *)
(* refers to (SecurityContext, Affinity, ResourceRequirements, ObjectMeta) *)
(* are library code, taken to give fresh storage for the whole field.      *)
(***************************************************************************)
EXTENDS Naturals, Sequences, FiniteSets

CONSTANTS Nil,
          EmptyMap    \* the contents of make(map[string]string, 0)

Prefix(p, fields) == { p \o f : f \in fields }

\* ControllerContainer.DeepCopyInto: SelectorLabels, SecurityContext,
\* Resources (Log is a value).
ControllerContainerRefs == {"SelectorLabels", "SecurityContext", "Resources"}

\* Observer.DeepCopyInto.
ObserverRefs == {"SelectorLabels", "SecurityContext"}

\* SecurityConfig.DeepCopyInto.
SecurityConfigRefs == {"PodSecurityContext"}

\* ServerContainer.DeepCopyInto.
ServerContainerRefs == {"SelectorLabels", "SecurityContext", "Resources"}

\* IntegrityShieldStatus.DeepCopyInto: "*out = *in" only.
IntegrityShieldStatusRefs == {}

\* LogConfig.DeepCopyInto: "*out = *in" only.
LogConfigRefs == {}

\* Mutant: the NodeSelector branch missing (the map header is shared).
IntegrityShieldSpecRefs_NoNodeSelector ==
    {"MaxSurge", "MaxUnavailable", "ReplicaCount", "MetaLabels",
     "Affinity", "Tolerations", "WebhookNamespacedResource", "WebhookClusterResource"}
    \cup Prefix("Security.", SecurityConfigRefs)
    \cup Prefix("Server.", ServerContainerRefs)
    \cup Prefix("ControllerContainer.", ControllerContainerRefs)
    \cup Prefix("Observer.", ObserverRefs)

\* IntegrityShieldSpec.DeepCopyInto: its own pointer, map and slice
\* fields, then the DeepCopyInto of its struct fields.
IntegrityShieldSpecRefs ==
    {"MaxSurge", "MaxUnavailable", "ReplicaCount", "MetaLabels", "NodeSelector",
     "Affinity", "Tolerations", "WebhookNamespacedResource", "WebhookClusterResource"}
    \cup Prefix("Security.", SecurityConfigRefs)
    \cup Prefix("Server.", ServerContainerRefs)
    \cup Prefix("ControllerContainer.", ControllerContainerRefs)
    \cup Prefix("Observer.", ObserverRefs)

\* IntegrityShield.DeepCopyInto: ObjectMeta and Spec (TypeMeta and
\* Status, an empty struct, are values).
IntegrityShieldRefs == {"ObjectMeta"} \cup Prefix("Spec.", IntegrityShieldSpecRefs)

\* The cells an object refers to.
Cells(obj) == { obj[f] : f \in { g \in DOMAIN obj : obj[g] # Nil } }

\* A fixed order of a finite set of field names, so allocation is
\* deterministic.
RECURSIVE Ordered(_)
Ordered(S) == IF S = {} THEN << >>
              ELSE LET f == CHOOSE x \in S : TRUE IN <<f>> \o Ordered(S \ {f})

\* Mutant: the "if in.X != nil" guards dropped: make/new of a nil field.
CopyInto_NoNilGuard(in, heap, refs) ==
    LET todo == Ordered(refs)
        at(f) == Len(heap) + CHOOSE k \in DOMAIN todo : todo[k] = f
    IN  [ out  |-> [f \in DOMAIN in |-> IF f \in refs THEN at(f) ELSE in[f]],
          heap |-> heap \o [k \in DOMAIN todo |->
                               IF in[todo[k]] = Nil THEN EmptyMap ELSE heap[in[todo[k]]]] ]

(***************************************************************************)
(* in.DeepCopyInto(out) for a type whose deep-copied reference fields are  *)
(* refs: "*out = *in", then each non-nil field of refs gets a new cell     *)
(* holding what the original's holds.  Result: [out, heap].                *)
(***************************************************************************)
CopyInto(in, heap, refs) ==
    LET todo == Ordered({ f \in refs : in[f] # Nil })
        at(f) == Len(heap) + CHOOSE k \in DOMAIN todo : todo[k] = f
    IN  [ out  |-> [f \in DOMAIN in |-> IF f \in refs /\ in[f] # Nil THEN at(f) ELSE in[f]],
          heap |-> heap \o [k \in DOMAIN todo |-> heap[in[todo[k]]]] ]

\* The DeepCopy every generated type has: nil stays nil, else
\* new(T) and DeepCopyInto.
NewCopy(in, heap, refs) ==
    IF in = Nil THEN [out |-> Nil, heap |-> heap]
    ELSE CopyInto(in, heap, refs)

ControllerContainerDeepCopy(in, heap) == NewCopy(in, heap, ControllerContainerRefs)

IntegrityShieldDeepCopy(in, heap) == NewCopy(in, heap, IntegrityShieldRefs)

IntegrityShieldSpecDeepCopy(in, heap) == NewCopy(in, heap, IntegrityShieldSpecRefs)

IntegrityShieldStatusDeepCopy(in, heap) == NewCopy(in, heap, IntegrityShieldStatusRefs)

LogConfigDeepCopy(in, heap) == NewCopy(in, heap, LogConfigRefs)

ObserverDeepCopy(in, heap) == NewCopy(in, heap, ObserverRefs)

SecurityConfigDeepCopy(in, heap) == NewCopy(in, heap, SecurityConfigRefs)

ServerContainerDeepCopy(in, heap) == NewCopy(in, heap, ServerContainerRefs)

(***************************************************************************)
(* A runtime.Object interface value: its dynamic type and pointer.  The    *)
(* nil interface has neither; an interface holding a nil *T is not nil.    *)
(***************************************************************************)
NilObject == [type |-> Nil, value |-> Nil]

\* IntegrityShield.DeepCopyObject: "if c := in.DeepCopy(); c != nil".
IntegrityShieldDeepCopyObject(in, heap) ==
    LET c == IntegrityShieldDeepCopy(in, heap)
    IN  IF c.out # Nil THEN [out |-> [type |-> "IntegrityShield", value |-> c.out], heap |-> c.heap]
        ELSE [out |-> NilObject, heap |-> c.heap]

(***************************************************************************)
(* IntegrityShieldList.DeepCopyInto: a list is [items, elems], items     *)
(* the backing array of Items (Nil for a nil slice) and elems the          *)
(* IntegrityShields in it.  A non-nil Items gets a new array (make) and    *)
(* every element its own DeepCopyInto, in order.                           *)
(***************************************************************************)
RECURSIVE CopyItems(_, _)
CopyItems(elems, heap) ==
    IF elems = << >> THEN [out |-> << >>, heap |-> heap]
    ELSE LET first == CopyInto(Head(elems), heap, IntegrityShieldRefs)
             rest  == CopyItems(Tail(elems), first.heap)
         IN  [out |-> <<first.out>> \o rest.out, heap |-> rest.heap]

IntegrityShieldListDeepCopyInto(in, heap) ==
    IF in.items = Nil THEN [out |-> in, heap |-> heap]
    ELSE LET arr   == Append(heap, heap[in.items])
             items == CopyItems(in.elems, arr)
         IN  [out |-> [items |-> Len(arr), elems |-> items.out], heap |-> items.heap]

\* IntegrityShieldList.DeepCopy.
IntegrityShieldListDeepCopy(in, heap) ==
    IF in = Nil THEN [out |-> Nil, heap |-> heap]
    ELSE IntegrityShieldListDeepCopyInto(in, heap)

\* IntegrityShieldList.DeepCopyObject.
IntegrityShieldListDeepCopyObject(in, heap) ==
    LET c == IntegrityShieldListDeepCopy(in, heap)
    IN  IF c.out # Nil THEN [out |-> [type |-> "IntegrityShieldList", value |-> c.out], heap |-> c.heap]
        ELSE [out |-> NilObject, heap |-> c.heap]
====
