---------------------------- MODULE CodeAllocator ---------------------------
(***************************************************************************)
(* gum's allocator of trampoline slices (gum/gumcodeallocator.c), as the   *)
(* x86 interceptor uses it: writable and executable pages, slices carved   *)
(* out of batches, and a doubly linked list of the free ones that is       *)
(* threaded through the slices themselves.                                 *)
(*                                                                         *)
(* A slice is taken for a function context under the interceptor's lock.   *)
(* It is given back by the context's destroy task, and gum releases the    *)
(* lock around a task's notify (module Interceptor): the stores that put   *)
(* the slice on the list are steps of their own, in a race with whatever   *)
(* other controllers do to the list.                                       *)
(***************************************************************************)
EXTENDS Integers, FiniteSets, FiniteSetsExt

CONSTANTS
  Controller,      \* threads that call the interceptor's API
  Context,         \* function contexts that may exist at once
  Place,           \* regions of the address space within a disp32 of each other
  PlaceOf,         \* PlaceOf[c]: the region of the function of context c
  SlicesPerBatch,  \* slices_per_batch
  MaxBatches,      \* bound: batches ever mapped
  MaxAllocs        \* bound: slices ever handed out to contexts

\* 0 is no place: it asks for any slice.
ASSUME PlaceAssumption == PlaceOf \in [Context -> Place] /\ 0 \notin Place
\* The two thunks take the first two slices of the first batch.
ASSUME SlicesAssumption == SlicesPerBatch \in Nat \ {0, 1}
ASSUME AllocBoundsAssumption == MaxBatches \in Nat \ {0} /\ MaxAllocs \in Nat

\* Slices are numbered through the batches; 0 stands for NULL.
Slice == 1..(MaxBatches * SlicesPerBatch)
BatchOf(s) == (s - 1) \div SlicesPerBatch + 1
FirstOf(b) == (b - 1) * SlicesPerBatch + 1
SlicesOf(b) == FirstOf(b)..(b * SlicesPerBatch)
Thunks == {1, 2}

VARIABLES
  place,        \* where the batches that have been mapped are
  free_slices,  \* GumCodeAllocator.free_slices: the head of the list
  prev, next,   \* the list's links
  ref_count,    \* GumCodeSlice.ref_count
  dirty_pages,  \* GumCodeAllocator.dirty_pages: batches
  slice,        \* GumFunctionContext.trampoline_slice of a context, or 0
  job,          \* what a controller is in the middle of
  lock,         \* holder of the interceptor's lock, or the empty set
  written,      \* history: slices handed out since the last commit
  raced,        \* history: two controllers have been at the list at once
  allocs

vars == <<place, free_slices, prev, next, ref_count, dirty_pages, slice, job, lock,
          written, raced, allocs>>

Batches == DOMAIN place
Near(s, p) == place[BatchOf(s)] = p

Idle == [at |-> "idle", slice |-> 0, ctx |-> 0]

\* gum_code_allocator_init, and the batch and two slices of create_thunks.
Init ==
  /\ place \in [{1} -> Place]
  /\ free_slices = IF SlicesPerBatch > 2 THEN 3 ELSE 0
  /\ next = [s \in Slice |-> IF s \in 3..(SlicesPerBatch - 1) THEN s + 1 ELSE 0]
  /\ prev = [s \in Slice |-> IF s \in 4..SlicesPerBatch THEN s - 1 ELSE 0]
  /\ ref_count = [s \in Slice |-> IF s <= SlicesPerBatch THEN 1 ELSE 0]
  /\ dirty_pages = {1}
  /\ slice = [c \in Context |-> 0]
  /\ job = [k \in Controller |-> Idle]
  /\ lock = {}
  /\ written = {}
  /\ raced = FALSE
  /\ allocs = 0

-----------------------------------------------------------------------------
\* The list as a walk along its links finds it, at most once around.
Walk ==
  LET at[n \in 1..Cardinality(Slice)] ==
        IF n = 1 THEN free_slices
        ELSE IF at[n - 1] = 0 THEN 0 ELSE next[at[n - 1]]
  IN [n \in DOMAIN at |-> at[n]]

\* Mutant of FirstFree: only the head of the list is looked at.
FirstFreeHead(p) ==
  IF free_slices # 0 /\ (p \in Place => Near(free_slices, p)) THEN free_slices ELSE 0

\* The first slice of the list near p, or the first if p is no place, or 0.
FirstFree(p) ==
  LET hits == {n \in DOMAIN Walk : Walk[n] # 0 /\ (p \in Place => Near(Walk[n], p))}
  IN IF hits = {} THEN 0 ELSE Walk[Min(hits)]

\* Controller k touches the list while another is half way through changing it.
Racing(k) == raced' = (raced \/ \E j \in Controller \ {k} :
                         job[j].at \in {"take", "push_prev", "push_next", "push_head"})

\* gum_code_allocator_try_alloc_batch_near: the new slices but the first, which
\* is the result, go to the head of the list, the second one foremost.
MapBatch(k, c, p) ==
  LET b == Cardinality(Batches) + 1
      first == FirstOf(b)
      rest == SlicesOf(b) \ {first}
      last == Max(SlicesOf(b))
      old == free_slices
  IN
  /\ b <= MaxBatches
  /\ place' = [d \in Batches \cup {b} |-> IF d = b THEN p ELSE place[d]]
  /\ ref_count' = [s \in Slice |-> IF s \in SlicesOf(b) THEN 1 ELSE ref_count[s]]
  /\ next' = [s \in Slice |-> IF s = first THEN 0
                              ELSE IF s = last THEN old
                              ELSE IF s \in rest THEN s + 1 ELSE next[s]]
  /\ prev' = [s \in Slice |-> IF s \in {first, first + 1} THEN 0
                              ELSE IF s \in rest THEN s - 1
                              ELSE IF s = old THEN last ELSE prev[s]]
  /\ free_slices' = first + 1
  /\ dirty_pages' = dirty_pages \cup {b}
  /\ written' = written \cup {first}
  /\ job' = [job EXCEPT ![k] = [at |-> "check", slice |-> first, ctx |-> c]]
  /\ Racing(k)

\* gum_interceptor_backend_prepare_trampoline begins: a slice near the function
\* or, for a fast context or when there is none and no page can be mapped
\* there, any slice.
Prepare(k, c, fast) ==
  LET nearest == IF fast THEN 0 ELSE FirstFree(PlaceOf[c])
      found == IF nearest # 0 THEN nearest ELSE FirstFree(0)
  IN
  /\ lock = {} /\ job[k] = Idle /\ allocs < MaxAllocs
  /\ slice[c] = 0 /\ \A j \in Controller : job[j].ctx # c
  /\ lock' = {k}
  /\ allocs' = allocs + 1
  /\ \/ /\ found # 0
        /\ job' = [job EXCEPT ![k] = [at |-> "take", slice |-> found, ctx |-> c]]
        /\ Racing(k)
        /\ UNCHANGED <<place, free_slices, prev, next, ref_count, dirty_pages, written>>
     \/ /\ ~fast /\ nearest = 0
        /\ MapBatch(k, c, PlaceOf[c])
     \/ /\ found = 0
        /\ \E p \in Place : MapBatch(k, c, p)
  /\ UNCHANGED slice

\* Mutant of Take: the head of the list is not moved on.
TakeKeepsHead(k) ==
  LET s == job[k].slice IN
  /\ job[k].at = "take"
  /\ next' = [n \in Slice |-> IF n = s THEN 0 ELSE IF n = prev[s] THEN next[s] ELSE next[n]]
  /\ prev' = [n \in Slice |-> IF n = s THEN 0 ELSE IF n = next[s] THEN prev[s] ELSE prev[n]]
  /\ dirty_pages' = dirty_pages \cup {BatchOf(s)}
  /\ written' = written \cup {s}
  /\ job' = [job EXCEPT ![k].at = "check"]
  /\ Racing(k)
  /\ UNCHANGED <<place, free_slices, ref_count, slice, lock, allocs>>

\* Mutant of Take: the pages are not marked dirty.
TakeClean(k) ==
  LET s == job[k].slice IN
  /\ job[k].at = "take"
  /\ next' = [n \in Slice |-> IF n = s THEN 0 ELSE IF n = prev[s] THEN next[s] ELSE next[n]]
  /\ prev' = [n \in Slice |-> IF n = s THEN 0 ELSE IF n = next[s] THEN prev[s] ELSE prev[n]]
  /\ free_slices' = IF free_slices = s THEN next[s] ELSE free_slices
  /\ written' = written \cup {s}
  /\ job' = [job EXCEPT ![k].at = "check"]
  /\ Racing(k)
  /\ UNCHANGED <<place, ref_count, dirty_pages, slice, lock, allocs>>

\* g_list_remove_link takes the slice off the list.  Its ref_count stays what
\* it was there: 1 for a new slice, 0 for one that has been given back.
Take(k) ==
  LET s == job[k].slice IN
  /\ job[k].at = "take"
  /\ next' = [n \in Slice |-> IF n = s THEN 0 ELSE IF n = prev[s] THEN next[s] ELSE next[n]]
  /\ prev' = [n \in Slice |-> IF n = s THEN 0 ELSE IF n = next[s] THEN prev[s] ELSE prev[n]]
  /\ free_slices' = IF free_slices = s THEN next[s] ELSE free_slices
  /\ dirty_pages' = dirty_pages \cup {BatchOf(s)}
  /\ written' = written \cup {s}
  /\ job' = [job EXCEPT ![k].at = "check"]
  /\ Racing(k)
  /\ UNCHANGED <<place, ref_count, slice, lock, allocs>>

\* gum_x86_relocator_can_relocate: the context has its trampoline.
Keep(k) ==
  /\ job[k].at = "check"
  /\ slice' = [slice EXCEPT ![job[k].ctx] = job[k].slice]
  /\ job' = [job EXCEPT ![k] = Idle]
  /\ lock' = {}
  /\ UNCHANGED <<place, free_slices, prev, next, ref_count, dirty_pages, written, raced, allocs>>

\* g_atomic_int_dec_and_test in gum_code_slice_unref: only a count that becomes
\* zero puts the slice on the list.
AfterUnref(s) == IF ref_count[s] = 1 THEN "push_prev" ELSE "done"

Unref(k, s) ==
  /\ ref_count' = [ref_count EXCEPT ![s] = @ - 1]
  /\ job' = [job EXCEPT ![k] = [at |-> AfterUnref(s), slice |-> s, ctx |-> 0]]

\* It cannot: the slice is given back at once, the lock still held.
Refuse(k) ==
  /\ job[k].at = "check"
  /\ Unref(k, job[k].slice)
  /\ UNCHANGED <<place, free_slices, prev, next, dirty_pages, slice, lock, written, raced, allocs>>

\* _gum_interceptor_backend_destroy_trampoline, from a destroy task's notify:
\* without the lock.
Destroy(k, c) ==
  /\ job[k] = Idle /\ slice[c] # 0
  /\ Unref(k, slice[c])
  /\ slice' = [slice EXCEPT ![c] = 0]
  /\ UNCHANGED <<place, free_slices, prev, next, dirty_pages, lock, written, raced, allocs>>

MovedOn(k, where) == job' = [job EXCEPT ![k].at = where]

\* Mutant of PushPrev: the old head's prev is not set.
PushPrevForgotten(k) ==
  /\ job[k].at = "push_prev"
  /\ MovedOn(k, "push_next")
  /\ Racing(k)
  /\ UNCHANGED <<place, free_slices, prev, next, ref_count, dirty_pages, slice, lock, written, allocs>>

\* allocator->free_slices->prev = link
PushPrev(k) ==
  /\ job[k].at = "push_prev"
  /\ prev' = [s \in Slice |-> IF s = free_slices THEN job[k].slice ELSE prev[s]]
  /\ MovedOn(k, "push_next")
  /\ Racing(k)
  /\ UNCHANGED <<place, free_slices, next, ref_count, dirty_pages, slice, lock, written, allocs>>

\* link->next = allocator->free_slices
PushNext(k) ==
  /\ job[k].at = "push_next"
  /\ next' = [next EXCEPT ![job[k].slice] = free_slices]
  /\ MovedOn(k, "push_head")
  /\ Racing(k)
  /\ UNCHANGED <<place, free_slices, prev, ref_count, dirty_pages, slice, lock, written, allocs>>

\* allocator->free_slices = link
PushHead(k) ==
  /\ job[k].at = "push_head"
  /\ free_slices' = job[k].slice
  /\ MovedOn(k, "done")
  /\ Racing(k)
  /\ UNCHANGED <<place, prev, next, ref_count, dirty_pages, slice, lock, written, allocs>>

Done(k) ==
  /\ job[k].at = "done"
  /\ job' = [job EXCEPT ![k] = Idle]
  /\ lock' = lock \ {k}
  /\ UNCHANGED <<place, free_slices, prev, next, ref_count, dirty_pages, slice, written, raced, allocs>>

\* gum_code_allocator_commit, at the end of a transaction.
Commit(k) ==
  /\ lock = {} /\ job[k] = Idle
  /\ dirty_pages' = {}
  /\ written' = {}
  /\ UNCHANGED <<place, free_slices, prev, next, ref_count, slice, job, lock, raced, allocs>>

Next ==
  \E k \in Controller :
    \/ \E c \in Context : (\E fast \in BOOLEAN : Prepare(k, c, fast)) \/ Destroy(k, c)
    \/ Take(k) \/ Keep(k) \/ Refuse(k)
    \/ PushPrev(k) \/ PushNext(k) \/ PushHead(k) \/ Done(k)
    \/ Commit(k)

Spec == Init /\ [][Next]_vars

-----------------------------------------------------------------------------
OnList == {Walk[n] : n \in DOMAIN Walk} \ {0}
Mapped == UNION {SlicesOf(b) : b \in Batches}
Held == {slice[c] : c \in Context} \ {0}

\* As long as no two controllers are at the list together, its links are each
\* other's inverses and it is the mapped slices that nobody has, without those
\* given back twice: a slice that is used again keeps the count of zero it had
\* on the list, the next unref makes it -1, and the slice is lost for good.
FreeListIsExact ==
  ~raced /\ (\A k \in Controller : job[k] = Idle) =>
    /\ OnList = (Mapped \ (Thunks \cup Held)) \ {s \in Slice : ref_count[s] < 0}
    /\ \A s \in OnList : next[s] # 0 => prev[next[s]] = s
    /\ free_slices # 0 => prev[free_slices] = 0

\* As long as no two controllers are at the list together, no two function
\* contexts have the same trampoline, nor one of the thunks.
SlicesAreNotShared ==
  ~raced => /\ \A c, d \in Context : c # d /\ slice[c] # 0 => slice[c] # slice[d]
            /\ Held \cap Thunks = {}
            /\ \A k \in Controller : job[k].at \in {"take", "check"} =>
                 job[k].slice \notin Held \cup Thunks

\* Every slice handed out since the last commit is on pages that the next
\* commit will see to, races or not.
CommitCoversNewCode == {BatchOf(s) : s \in written} \subseteq dirty_pages

\* Pages are mapped only where no slice of the list would have done.
MapsOnlyWhenNeeded ==
  [][Batches' # Batches =>
       LET b == Max(Batches') IN
       ~raced' => \A s \in OnList : place[BatchOf(s)] # place'[b]]_vars

=============================================================================
