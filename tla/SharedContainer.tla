-------------------------- MODULE SharedContainer --------------------------
(***************************************************************************)
(* SharedContainer (sharedcontainer.h, sharedcontainer.cpp), the counted   *)
(* handle that images, audio samples and audio channels are, with the      *)
(* operations of Image that make one handle out of another.                *)
(*                                                                         *)
(* A reference counter is named after the data it was made for, and all    *)
(* the handles that share a counter are one family.  Image's transformed,  *)
(* fragment and blit give a copy other data, so the handles of a family    *)
(* may hold different data.                                                *)
(***************************************************************************)
EXTENDS Naturals, FiniteSets

CONSTANTS Handle,  \* objects of the program that hold a container
          Data,    \* what a provider allocates; each at most once
          Null

\* The object a function returns by value, until the caller has it.
Result == "result"

ASSUME SharedContainerAssumption ==
  IsFiniteSet(Handle) /\ Result \notin Handle /\ Null \notin Data

VARIABLE heap  \* handle: what each object holds; refCount: the counters;
               \* destructed: calls of the destructor per data; family: the
               \* counter of the handle each data was allocated for, Null
               \* before that; thrown: detach has found a broken handle

containerVars == <<heap>>

NullHandle == [data |-> Null, refCountPtr |-> Null]

InitContainers ==
  heap = [handle     |-> [h \in Handle \cup {Result} |-> NullHandle],
          refCount   |-> [d \in Data |-> 0],
          destructed |-> [d \in Data |-> 0],
          family     |-> [d \in Data |-> Null],
          thrown     |-> FALSE]

\* Slip: the pointer to a counter that is gone is kept.
detach_dangling(s, h) ==
  LET c == s.handle[h].refCountPtr
      last == s.refCount[c] <= 1
  IN IF c = Null
       THEN [s EXCEPT !.thrown = @ \/ s.handle[h].data # Null]
     ELSE [s EXCEPT !.refCount[c] = @ - 1,
                    !.destructed[s.handle[h].data] = IF last THEN @ + 1 ELSE @]

\* detach on the state s: the last of a family frees the data it holds itself.
detach(s, h) ==
  LET c == s.handle[h].refCountPtr
      last == s.refCount[c] <= 1
  IN IF c = Null
       THEN [s EXCEPT !.thrown = @ \/ s.handle[h].data # Null]
     ELSE [s EXCEPT !.refCount[c] = @ - 1,
                    !.destructed[s.handle[h].data] = IF last THEN @ + 1 ELSE @,
                    !.handle[h].refCountPtr = IF last THEN Null ELSE @]

\* Slip: a copy is not counted.
assign_uncounted(s, h, g) ==
  LET s1 == detach(s, h)
  IN IF s1.thrown THEN s1 ELSE [s1 EXCEPT !.handle[h] = s1.handle[g]]

\* operator= and with it the copy constructor: detach, which may throw, then
\* copy, then count.  A handle assigned to itself copies the pointer that
\* detach has just reset.
assign(s, h, g) ==
  LET s1 == detach(s, h)
      c == s1.handle[g].refCountPtr
  IN IF s1.thrown THEN s1
     ELSE [s1 EXCEPT !.handle[h] = s1.handle[g],
                     !.refCount = IF c = Null THEN @
                                  ELSE [s1.refCount EXCEPT ![c] = @ + 1]]

destroy(s, h) == [detach(s, h) EXCEPT !.handle[h] = NullHandle]

\* The caller assigns what a function returned to h, and the temporary ends.
give(s, h) == destroy(assign(s, h, Result), Result)

\* createSharedContainer, through the providers.
Create(h, d) ==
  /\ heap.family[d] = Null
  /\ heap' = give([heap EXCEPT !.handle[Result] = [data |-> d, refCountPtr |-> d],
                               !.refCount[d] = 1,
                               !.family[d] = d], h)

Assign(h, g) == heap' = assign(heap, h, g)

Destroy(h) == heap' = destroy(heap, h)

\* A handle whose data is freed: to call Image's functions on it is undefined,
\* and no behaviour here goes on from there.
Broken(g) == heap.handle[g].data # Null /\ heap.handle[g].refCountPtr = Null

\* A copy of g whose data setData replaces.
derived(g, d) ==
  LET copy == assign(heap, Result, g)
  IN [copy EXCEPT !.handle[Result].data = d,
                  !.family[d] = copy.handle[Result].refCountPtr]

\* h = g.transformed(), g.fragment(); an image that no provider made has no
\* function to call.
Derive(h, g, d) ==
  /\ heap.family[d] = Null
  /\ heap.handle[g].data # Null
  /\ ~Broken(g)
  /\ heap' = give(derived(g, d), h)

\* h = g.blit(term): a null image if g holds nothing, a copy if term does.
Blit(h, g, term, d) ==
  /\ heap.family[d] = Null
  /\ ~Broken(g)
  /\ ~Broken(term)
  /\ heap' = IF heap.handle[g].data = Null THEN give(heap, h)
             ELSE IF heap.handle[term].data = Null THEN give(assign(heap, Result, g), h)
             ELSE give(derived(g, d), h)

NextContainers ==
  /\ ~heap.thrown
  /\ \/ \E h \in Handle, d \in Data : Create(h, d)
     \/ \E h, g \in Handle : Assign(h, g)
     \/ \E h \in Handle : Destroy(h)
     \/ \E h, g \in Handle, d \in Data : Derive(h, g, d)
     \/ \E h, g, term \in Handle, d \in Data : Blit(h, g, term, d)

SpecContainers == InitContainers /\ [][NextContainers]_containerVars

-----------------------------------------------------------------------------
Family(c) == {h \in Handle : heap.handle[h].refCountPtr = c}

(***************************************************************************)
(* Nothing a counted handle holds has been freed, whatever other handles   *)
(* of its family did; and of the data a family went through, exactly one   *)
(* is freed, once, when the last of its handles goes.  (What a derived     *)
(* image replaced is never freed.)  detach throws only on a handle whose   *)
(* data is gone, one assigned to itself as the last of its family or a     *)
(* copy of such a one.                                                     *)
(***************************************************************************)
FreedWithLastHandle ==
  /\ \A h \in Handle :
       LET c == heap.handle[h].refCountPtr
           d == heap.handle[h].data
       IN d # Null => (heap.destructed[d] = IF c = Null THEN 1 ELSE 0)
  /\ \A d \in Data :
       /\ heap.refCount[d] = Cardinality(Family(d))
       /\ heap.destructed[d] <= 1
       /\ (heap.family[d] = d /\ Family(d) = {})
            => \E e \in Data : {x \in Data : heap.family[x] = d
                                           /\ heap.destructed[x] = 1} = {e}
=============================================================================
