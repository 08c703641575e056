--------------------------- MODULE AnnotationList ---------------------------
(***************************************************************************)
(* client/annotation_list.cc: the lock-free list that the annotations of a *)
(* module are in, which threads of the client add to with SetSize(), and   *)
(* which the handler walks when it has stopped the client, wherever its    *)
(* threads are then (snapshot/crashpad_types/image_annotation_reader.cc).  *)
(***************************************************************************)
EXTENDS Naturals, FiniteSets

CONSTANTS
    Annotations, \* the annotations of the module
    Setters,     \* the threads that set them
    Lists,       \* the AnnotationList objects that may be made
    Nowhere,     \* nullptr
    MaxSets      \* bound: calls of SetSize() and Clear()

ASSUME ListAssumption ==
    /\ IsFiniteSet(Annotations) /\ Annotations \cap Lists = {}
    /\ Nowhere \notin Annotations \cup Lists
    /\ MaxSets \in Nat

VARIABLES
    registered, \* annotations_list() of CrashpadInfo
    head,       \* head[l]: link_node_ of list l's head_, Nowhere for a list not made
    link,       \* link[a]: link_node_ of annotation a; a list stands for its own tail_
    annSize,    \* annSize[a]: size_
    setter,     \* setter[t]: where thread t is in SetSize(), and its locals
    sets        \* how many calls were made

listVars == <<registered, head, link, annSize, setter, sets>>

\* A thread outside SetSize().
AtRest == [pc |-> "rest", list |-> Nowhere, annotation |-> Nowhere, next |-> Nowhere]

ListTypeOK ==
    /\ registered \in Lists \cup {Nowhere}
    /\ head \in [Lists -> Annotations \cup Lists \cup {Nowhere}]
    /\ link \in [Annotations -> Annotations \cup Lists \cup {Nowhere}]
    /\ annSize \in [Annotations -> 0 .. 1]
    /\ \A t \in Setters : setter[t].pc \in {"rest", "get", "set", "load", "claim", "insert"}

ListInit ==
    /\ registered = Nowhere
    /\ head = [l \in Lists |-> Nowhere]
    /\ link = [a \in Annotations |-> Nowhere]
    /\ annSize = [a \in Annotations |-> 0]
    /\ setter = [t \in Setters |-> AtRest]
    /\ sets = 0

At(t, pc) == setter[t].pc = pc

----------------------------------------------------------------------------
\* Annotation::SetSize().
SetSize(t, a) ==
    /\ At(t, "rest")
    /\ sets < MaxSets
    /\ sets' = sets + 1
    /\ annSize' = [annSize EXCEPT ![a] = 1]
    /\ setter' = [setter EXCEPT ![t] = [@ EXCEPT !.pc = "get", !.annotation = a]]
    /\ UNCHANGED <<registered, head, link>>

\* Annotation::Clear().
ClearAnnotation(t, a) ==
    /\ At(t, "rest")
    /\ sets < MaxSets
    /\ sets' = sets + 1
    /\ annSize' = [annSize EXCEPT ![a] = 0]
    /\ UNCHANGED <<registered, head, link, setter>>

\* AnnotationList::Register(): the list that CrashpadInfo has, or a new one ...
Register(t) ==
    /\ At(t, "get")
    /\ \/ /\ registered # Nowhere
          /\ setter' = [setter EXCEPT ![t].pc = "load", ![t].list = registered]
          /\ UNCHANGED head
       \/ /\ registered = Nowhere
          /\ \E l \in Lists :
               /\ head[l] = Nowhere
               /\ head' = [head EXCEPT ![l] = l]
               /\ setter' = [setter EXCEPT ![t].pc = "set", ![t].list = l]
    /\ UNCHANGED <<registered, link, annSize, sets>>

\* ... which it is told of, though another thread may have done so meanwhile.
SetAnnotationsList(t) ==
    /\ At(t, "set")
    /\ registered' = setter[t].list
    /\ setter' = [setter EXCEPT ![t].pc = "load"]
    /\ UNCHANGED <<head, link, annSize, sets>>

\* AnnotationList::Add() loads the head's link,
LoadHead(t) ==
    /\ At(t, "load")
    /\ setter' = [setter EXCEPT ![t].pc = "claim", ![t].next = head[setter[t].list]]
    /\ UNCHANGED <<registered, head, link, annSize, sets>>

\* Mutant: an annotation that is in the list already is added again.
ClaimAnnotationMutant(t) ==
    LET a == setter[t].annotation
    IN /\ At(t, "claim")
       /\ link' = [link EXCEPT ![a] = setter[t].next]
       /\ setter' = [setter EXCEPT ![t].pc = "insert"]
       /\ UNCHANGED <<registered, head, annSize, sets>>

\* sets the annotation's to it if it is still null, or else returns,
ClaimAnnotation(t) ==
    LET a == setter[t].annotation
    IN /\ At(t, "claim")
       /\ IF link[a] = Nowhere
            THEN /\ link' = [link EXCEPT ![a] = setter[t].next]
                 /\ setter' = [setter EXCEPT ![t].pc = "insert"]
            ELSE /\ setter' = [setter EXCEPT ![t] = AtRest]
                 /\ UNCHANGED link
       /\ UNCHANGED <<registered, head, annSize, sets>>

\* and tries to make it the head's: not if another one came in between, or for no
\* reason.  The link is then stored once more, before the next try.
InsertFailed(t) ==
    LET next == head[setter[t].list]
    IN /\ At(t, "insert")
       /\ link' = [link EXCEPT ![setter[t].annotation] = next]
       /\ setter' = [setter EXCEPT ![t].next = next]
       /\ UNCHANGED <<registered, head, annSize, sets>>

Insert(t) ==
    /\ At(t, "insert")
    /\ head[setter[t].list] = setter[t].next
    /\ head' = [head EXCEPT ![setter[t].list] = setter[t].annotation]
    /\ setter' = [setter EXCEPT ![t] = AtRest]
    /\ UNCHANGED <<registered, link, annSize, sets>>

ListNext ==
    \E t \in Setters :
      \/ \E a \in Annotations : SetSize(t, a) \/ ClearAnnotation(t, a)
      \/ Register(t) \/ SetAnnotationsList(t)
      \/ LoadHead(t) \/ ClaimAnnotation(t) \/ InsertFailed(t) \/ Insert(t)

ListSpec == ListInit /\ [][ListNext]_listVars

----------------------------------------------------------------------------
\* Iterator::operator++(): a tail is the end.
NextNode(node) == IF node \in Annotations THEN link[node] ELSE node

\* ReadAnnotationList(): where a walk through list l is after n steps.
Walk(l) ==
    LET at[n \in 0 .. Cardinality(Annotations)] ==
          IF n = 0 THEN head[l] ELSE NextNode(at[n - 1])
    IN at

\* Some thread has claimed a and not inserted it yet.
BeingAdded(a) == \E t \in Setters : At(t, "insert") /\ setter[t].annotation = a

\* Wherever the threads are stopped, the walk through a list ends at its own tail, after
\* as many steps as there are annotations or fewer, and so meets none twice.  It meets
\* every annotation that was added and that no thread is adding: the list is the one that
\* the handler is told of, unless two threads registered one each.
AnnotationsReachable ==
    /\ \A l \in Lists : head[l] # Nowhere => Walk(l)[Cardinality(Annotations)] = l
    /\ \A a \in Annotations :
         link[a] # Nowhere /\ ~BeingAdded(a) =>
           \E l \in Lists :
             /\ head[l] # Nowhere
             /\ \E n \in 0 .. Cardinality(Annotations) : Walk(l)[n] = a
             /\ l = registered \/ \E m \in Lists \ {l} : head[m] # Nowhere
=============================================================================
