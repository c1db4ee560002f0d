------------------------------ MODULE MCDeepCopy ------------------------------
(***************************************************************************)
(* The informer cache holds an IntegrityShieldList; the reconciler takes a *)
(* deep copy of one item or of the whole list before changing anything.    *)
(* An object has no reference field set, exactly one, or all of them; a    *)
(* list is a nil slice, an empty one, or one or two such objects.  The     *)
(* reconciler may also copy one struct of an item (its Spec, Server, ...), *)
(* or call DeepCopyObject, as client-go does, on an item, the list or a   *)
(* nil pointer of either type.                                             *)
(***************************************************************************)
EXTENDS DeepCopy

\* The reference fields of IntegrityShield, from the API types.
AllFields ==
    {"ObjectMeta"} \cup
    Prefix("Spec.", {"MaxSurge", "MaxUnavailable", "ReplicaCount", "MetaLabels",
                     "NodeSelector", "Affinity", "Tolerations",
                     "WebhookNamespacedResource", "WebhookClusterResource",
                     "Security.PodSecurityContext",
                     "Server.SelectorLabels", "Server.SecurityContext", "Server.Resources",
                     "ControllerContainer.SelectorLabels",
                     "ControllerContainer.SecurityContext",
                     "ControllerContainer.Resources",
                     "Observer.SelectorLabels", "Observer.SecurityContext"})

Shapes == { {} , AllFields } \cup { {f} : f \in AllFields }

\* An object whose fields in set are non-nil, its cells appended to heap;
\* a cell holds the name of its field.
Build(set, heap) ==
    LET order == Ordered(set)
        at(f) == Len(heap) + CHOOSE k \in DOMAIN order : order[k] = f
    IN  [ out  |-> [f \in AllFields |-> IF f \in set THEN at(f) ELSE Nil],
          heap |-> heap \o order ]

RECURSIVE BuildAll(_, _)
BuildAll(shapes, heap) ==
    IF shapes = << >> THEN [out |-> << >>, heap |-> heap]
    ELSE LET first == Build(Head(shapes), heap)
             rest  == BuildAll(Tail(shapes), first.heap)
         IN  [out |-> <<first.out>> \o rest.out, heap |-> rest.heap]

\* A cached list: a nil slice, or an array cell and its elements.
CachedList(shapes, isNil) ==
    IF isNil THEN [list |-> [items |-> Nil, elems |-> << >>], heap |-> << >>]
    ELSE LET b == BuildAll(shapes, <<"Items">>)
         IN  [list |-> [items |-> 1, elems |-> b.out], heap |-> b.heap]

Lists == { CachedList(<< >>, TRUE) } \cup
         { CachedList(s, FALSE) : s \in { << >> } \cup { <<a>> : a \in Shapes }
                                                 \cup { <<a, b>> : a, b \in Shapes } }

NoCopy == [items |-> Nil, elems |-> << >>]

\* The structs of an IntegrityShield with a generated DeepCopy, by the
\* prefix of their fields.
Parts == {"Spec.", "Status.", "Spec.Security.", "Spec.Server.",
          "Spec.ControllerContainer.", "Spec.ControllerContainer.Log.", "Spec.Observer."}

PartRefs(part) ==
    CASE part = "Spec."                         -> IntegrityShieldSpecRefs
      [] part = "Status."                       -> IntegrityShieldStatusRefs
      [] part = "Spec.Security."                -> SecurityConfigRefs
      [] part = "Spec.Server."                  -> ServerContainerRefs
      [] part = "Spec.ControllerContainer."     -> ControllerContainerRefs
      [] part = "Spec.ControllerContainer.Log." -> LogConfigRefs
      [] part = "Spec.Observer."                -> ObserverRefs

PartDeepCopy(part, in, h) ==
    CASE part = "Spec."                         -> IntegrityShieldSpecDeepCopy(in, h)
      [] part = "Status."                       -> IntegrityShieldStatusDeepCopy(in, h)
      [] part = "Spec.Security."                -> SecurityConfigDeepCopy(in, h)
      [] part = "Spec.Server."                  -> ServerContainerDeepCopy(in, h)
      [] part = "Spec.ControllerContainer."     -> ControllerContainerDeepCopy(in, h)
      [] part = "Spec.ControllerContainer.Log." -> LogConfigDeepCopy(in, h)
      [] part = "Spec.Observer."                -> ObserverDeepCopy(in, h)

\* The struct at part of obj, its fields named as in its own type.
Project(obj, part) == [f \in PartRefs(part) |-> obj[part \o f]]

VARIABLES cache, heap, copied, copy, source,
          object,       \* what DeepCopyObject returned
          receiver      \* what DeepCopyObject was called on: none yet, nil or a pointer

vars == <<cache, heap, copied, copy, source, object, receiver>>

Init == /\ \E l \in Lists : cache = l.list /\ heap = l.heap
        /\ copied = FALSE
        /\ copy = NoCopy
        /\ source = NoCopy
        /\ object = NilObject
        /\ receiver = "none"

\* obj.DeepCopy() of one cached item.
CopyItem == /\ ~copied
            /\ \E i \in DOMAIN cache.elems :
                  LET r == IntegrityShieldDeepCopy(cache.elems[i], heap)
                  IN  /\ copy' = [items |-> Nil, elems |-> <<r.out>>]
                      /\ source' = [items |-> Nil, elems |-> <<cache.elems[i]>>]
                      /\ heap' = r.heap
            /\ copied' = TRUE
            /\ UNCHANGED <<cache, object, receiver>>

\* obj.Spec.Server.DeepCopy() and the like, of one cached item.
CopyPart == /\ ~copied
            /\ \E i \in DOMAIN cache.elems, part \in Parts :
                  LET in == Project(cache.elems[i], part)
                      r  == PartDeepCopy(part, in, heap)
                  IN  /\ copy' = [items |-> Nil, elems |-> <<r.out>>]
                      /\ source' = [items |-> Nil, elems |-> <<in>>]
                      /\ heap' = r.heap
            /\ copied' = TRUE
            /\ UNCHANGED <<cache, object, receiver>>

\* list.DeepCopy().
CopyList == /\ ~copied
            /\ LET r == IntegrityShieldListDeepCopy(cache, heap)
               IN  /\ copy' = r.out
                   /\ source' = cache
                   /\ heap' = r.heap
            /\ copied' = TRUE
            /\ UNCHANGED <<cache, object, receiver>>

\* DeepCopyObject() on a cached item or a nil *IntegrityShield.
ShieldObject ==
    /\ ~copied
    /\ \E p \in {Nil} \cup { cache.elems[i] : i \in DOMAIN cache.elems } :
          LET r == IntegrityShieldDeepCopyObject(p, heap)
          IN  /\ object' = r.out
              /\ receiver' = IF p = Nil THEN "nil" ELSE "ptr"
              /\ copy' = IF r.out.value = Nil THEN NoCopy
                         ELSE [items |-> Nil, elems |-> <<r.out.value>>]
              /\ source' = IF p = Nil THEN NoCopy ELSE [items |-> Nil, elems |-> <<p>>]
              /\ heap' = r.heap
    /\ copied' = TRUE
    /\ UNCHANGED cache

\* DeepCopyObject() on the cached list or a nil *IntegrityShieldList.
ListObject ==
    /\ ~copied
    /\ \E p \in {Nil, cache} :
          LET r == IntegrityShieldListDeepCopyObject(p, heap)
          IN  /\ object' = r.out
              /\ receiver' = IF p = Nil THEN "nil" ELSE "ptr"
              /\ copy' = IF r.out.value = Nil THEN NoCopy ELSE r.out.value
              /\ source' = IF p = Nil THEN NoCopy ELSE cache
              /\ heap' = r.heap
    /\ copied' = TRUE
    /\ UNCHANGED cache

Next == CopyItem \/ CopyPart \/ CopyList \/ ShieldObject \/ ListObject

Spec == Init /\ [][Next]_vars

CellsOf(l) == (IF l.items = Nil THEN {} ELSE {l.items})
              \cup UNION { Cells(l.elems[i]) : i \in DOMAIN l.elems }

Deref(obj) == [f \in DOMAIN obj |-> IF obj[f] = Nil THEN Nil ELSE heap[obj[f]]]

(***************************************************************************)
(* A deep copy shares no storage with what it was copied from nor between  *)
(* its own items: no map, slice or pointed-to value the reconciler may     *)
(* change in the copy is also reachable from the informer cache.           *)
(***************************************************************************)
CopiesIndependent ==
    /\ CellsOf(copy) \cap CellsOf(cache) = {}
    /\ \A i, j \in DOMAIN copy.elems :
          i # j => Cells(copy.elems[i]) \cap Cells(copy.elems[j]) = {}

(***************************************************************************)
(* A deep copy is equal to its source (reflect.DeepEqual): the same fields *)
(* are nil, a nil map or slice stays nil rather than becoming empty, and   *)
(* every other field holds what the source's holds.                        *)
(***************************************************************************)
CopiesFaithful ==
    copied => /\ (copy.items = Nil) = (source.items = Nil)
              /\ Len(copy.elems) = Len(source.elems)
              /\ \A i \in DOMAIN copy.elems : Deref(copy.elems[i]) = Deref(source.elems[i])

====
