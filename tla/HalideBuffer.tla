---------------------------- MODULE HalideBuffer ----------------------------
(***************************************************************************)
(* Halide::Runtime::Buffer (src/runtime/HalideBuffer.h) over the device    *)
(* interface (src/runtime/device_interface.cpp) and a GPU backend of the   *)
(* shape of src/runtime/cuda.cpp.                                          *)
(*                                                                         *)
(* Buffer objects share host allocations and device allocations through    *)
(* two reference counts; a crop has a device reference count of its own    *)
(* that embeds a Buffer holding on to the allocation it was cropped from.  *)
(* Every method is one step: the counts are atomic, and the copies are     *)
(* made under device_copy_mutex.  The extents of a crop do not matter      *)
(* here: a crop refers to the device allocation it lies in.                *)
(*                                                                         *)
(* hf and df say whether the host and the device copy hold the data last   *)
(* written; aliased and settled say when the dirty bits of an object can   *)
(* be held to that (see DirtyBitsTruthful).  The code has no such fields.  *)
(*                                                                         *)
(* A program uses some of the methods, and is marked when it may meet one  *)
(* of two cases in which the code miscounts the uses of a module (see      *)
(* ModuleKept): "nocrop", a runtime without device_crop; "self", a         *)
(* halide_buffer_copy that gives a Buffer device memory and copies it onto *)
(* itself.                                                                 *)
(***************************************************************************)
EXTENDS Integers, FiniteSets, FiniteSetsExt

CONSTANTS Objects,       \* the Buffer objects of the program
          Interfaces,    \* halide_device_interface_t of the GPU runtimes
          Allocations,   \* host blocks, Handles: device blocks, by address
          Handles,
          Native,        \* a device block of the application, to be wrapped
          RefCounts,     \* DeviceRefCount blocks, by address
          MaxUses,       \* how far the marked programs may drive the uses of a module
          Programs,      \* the objects, host blocks, interfaces and methods of the programs
          NULL

ASSUME BufferAssumption ==
  /\ Allocations \subseteq Nat /\ Handles \subseteq Nat /\ RefCounts \subseteq Nat
  /\ Native \notin Handles /\ MaxUses \in Nat
  /\ \A p \in Programs : /\ p.objects \subseteq Objects /\ p.allocations \subseteq Allocations
                         /\ p.interfaces \subseteq Interfaces
                         /\ p.methods \subseteq {"share", "wrap", "transfer", "copy",
                                                "nocrop", "self"}
  /\ NULL \notin Objects \cup Interfaces \cup Nat \cup {Native}

VARIABLES
  program,     \* the program that runs
  obj,         \* the fields of every Buffer object
  ref_count,   \* AllocationHeader::ref_count, 0 when the block is free
  dev,         \* DeviceRefCount by address, NULL when free
  live,        \* the device blocks that the backend has handed out
  module_uses  \* use_module calls less release_module calls

vars == <<program, obj, ref_count, dev, live, module_uses>>

\* Buffer(): no memory, and nothing dirty.
Empty == [alloc |-> NULL, device |-> NULL, device_interface |-> NULL, dev_ref_count |-> NULL,
          host_dirty |-> FALSE, device_dirty |-> FALSE,
          hf |-> TRUE, df |-> FALSE, aliased |-> FALSE, settled |-> TRUE]

\* What the counts and the runtimes keep; the methods below map one to the next.
Heap == [ref_count |-> ref_count, dev |-> dev, live |-> live, module_uses |-> module_uses]

BecomesHeap(h) ==
  /\ ref_count' = h.ref_count /\ dev' = h.dev
  /\ live' = h.live /\ module_uses' = h.module_uses

\* Where the dirty bits are not held to the truth, hf and df are left out.
Tracked(b) ==
  LET settled == b.settled /\ ~b.aliased
  IN [b EXCEPT !.settled = settled, !.hf = @ /\ settled, !.df = @ /\ settled]
BecomesObj(f) == obj' = [o \in Objects |-> Tracked(f[o])]

FreeAllocations(h) == {a \in program.allocations : h.ref_count[a] = 0}
FreeRefCounts(h) == {r \in RefCounts : h.dev[r] = NULL}

-----------------------------------------------------------------------------
(* The device interface and its backend, on one halide_buffer_t.           *)

\* debug_log_and_validate_buf
Invalid(b) ==
  \/ (b.device = NULL) # (b.device_interface = NULL)
  \/ b.host_dirty /\ b.device_dirty

\* The block that halide_device_free gives back to the backend.
BackendFree(h, b) ==
  [h EXCEPT !.live = @ \ {b.device}, !.module_uses = @ - 1]

\* halide_device_detach_native, halide_device_release_crop: the block stays.
MutModuleKept(h) == h
BackendRelease(h) == [h EXCEPT !.module_uses = @ - 1]

\* F is the set of the backend's calls that fail.
halide_device_malloc(h, b, i, F) ==
  LET refused == \/ Invalid(b)
                 \/ b.device_interface \notin {NULL, i}
                 \/ b.device = NULL /\ ("malloc" \in F \/ Handles \subseteq h.live)
      p == Min(Handles \ h.live)
  IN IF refused THEN [h |-> h, b |-> b, err |-> TRUE]
     ELSE IF b.device # NULL THEN [h |-> h, b |-> b, err |-> FALSE]
     ELSE [h |-> [h EXCEPT !.live = @ \cup {p}, !.module_uses = @ + 1],
           b |-> [b EXCEPT !.device = p, !.device_interface = i,
                           !.df = FALSE, !.settled = @ /\ b.host_dirty],
           err |-> FALSE]

copy_to_host_already_locked(b, F) ==
  IF ~b.device_dirty THEN [b |-> b, err |-> FALSE]
  ELSE IF b.host_dirty \/ b.device_interface = NULL \/ b.alloc = NULL
       THEN [b |-> b, err |-> TRUE]
  ELSE IF "copy" \in F THEN [b |-> [b EXCEPT !.hf = FALSE], err |-> TRUE]
  ELSE [b |-> [b EXCEPT !.hf = b.df, !.device_dirty = FALSE], err |-> FALSE]

copy_to_device_already_locked(h, b, i, F) ==
  LET m == halide_device_malloc(h, b, i, F)
  IN IF Invalid(b) \/ m.err THEN [h |-> m.h, b |-> b, err |-> TRUE]
     ELSE IF ~b.host_dirty THEN m
     ELSE IF "copy" \in F THEN [m EXCEPT !.b.df = FALSE, !.err = TRUE]
     ELSE [m EXCEPT !.b.df = b.hf, !.b.host_dirty = FALSE]

\* halide_cuda_buffer_copy of the backend of i: whether the data comes from the
\* source's host memory, and the case it leaves to the caller.
Incompatible(s, i) == (s.device_dirty \/ s.alloc = NULL) /\ s.device_interface # i
MutHostDirtyIgnored(s, i) == s.device_interface # i \/ s.device = NULL
FromHost(s, i) ==
  s.device_interface # i \/ s.device = NULL \/ (s.host_dirty /\ s.alloc # NULL)
CopiedFresh(s, i) == IF FromHost(s, i) THEN s.hf ELSE s.df

\* The end of halide_buffer_copy_already_locked: what the dirty bits of the
\* destination become.
Arrived(d, to, fresh, hostFresh) ==
  IF to # NULL
  THEN [d EXCEPT !.host_dirty = FALSE, !.device_dirty = TRUE, !.df = fresh, !.hf = hostFresh]
  ELSE [d EXCEPT !.host_dirty = TRUE, !.device_dirty = FALSE, !.hf = fresh, !.df = FALSE]

\* Whether the device copy of s is current, and whether it has to take the way
\* through the host memory of d.
from_device_valid(s) == s.device # NULL /\ (s.alloc = NULL \/ ~s.host_dirty)
ThroughHostOf(s, d, to) == /\ to # NULL /\ d.device_interface \in {NULL, to} /\ d.alloc # NULL
                           /\ from_device_valid(s) /\ Incompatible(s, to)

\* s0 to d, in the memory of the interface to, or in host memory (NULL); "same" when
\* both are one Buffer.  "holds" is what d holds then: what it held before, the data of
\* the source, or half of it (one of its two copies, when both are marked dirty).
halide_buffer_copy_already_locked(h, s0, d, same, to, F) ==
  LET m == IF to = NULL \/ d.device # NULL THEN [h |-> h, b |-> d, err |-> FALSE]
           ELSE halide_device_malloc(h, d, to, F)
      s == IF same THEN m.b ELSE s0
      from_host_valid == s.alloc # NULL /\ (~s.device_dirty \/ s.device_interface = NULL)
      own == CopiedFresh(s, s.device_interface)
      Result(s1, d1, holds) == [h |-> m.h, s |-> IF same THEN d1 ELSE s1, d |-> d1,
                                holds |-> IF same /\ holds = "source" THEN "before" ELSE holds]
      Fail(s1, d1) == Result(s1, d1, "before")
      Break(s1, d1) == Result(s1, d1, "half")
      Done(s1, d1, fresh, hostFresh) ==
        Result(s1, IF ~same THEN Arrived(d1, to, fresh, hostFresh)
                   ELSE IF to # NULL THEN [d1 EXCEPT !.df = fresh] ELSE [d1 EXCEPT !.hf = fresh],
               "source")
      Copy(s1, fresh) == IF "copy" \in F
                         THEN Break(s1, [m.b EXCEPT !.hf = @ /\ to # NULL, !.df = @ /\ to = NULL])
                         ELSE Done(s1, m.b, fresh, FALSE)
      via == copy_to_device_already_locked(m.h, [m.b EXCEPT !.host_dirty = TRUE, !.hf = own],
                                           to, IF "second" \in F THEN {"copy"} ELSE {})
      home == copy_to_host_already_locked(s, F)
  IN IF \/ to # NULL /\ d.device_interface \notin {NULL, to}
        \/ m.err
        \/ to = NULL /\ d.alloc = NULL
     THEN Fail(s, m.b)
     ELSE IF from_device_valid(s) /\ to # NULL /\ ~Incompatible(s, to)
          THEN Copy(s, CopiedFresh(s, to))
     ELSE IF s.alloc = NULL /\ d.alloc = NULL THEN Fail(s, m.b)
     ELSE IF to = NULL /\ from_host_valid THEN Done(s, m.b, s.hf, FALSE)
     ELSE IF to = NULL THEN Copy(s, own)
     ELSE IF ThroughHostOf(s, d, to)
          THEN IF "copy" \in F THEN Break(s, [m.b EXCEPT !.hf = FALSE])
               ELSE IF via.err
                    THEN Result(s, via.b, IF m.b.device_dirty THEN "half" ELSE "source")
               ELSE Done(s, via.b, via.b.df, own)
     ELSE IF home.err THEN Fail(home.b, IF same THEN home.b ELSE m.b)
     ELSE IF "second" \in F THEN Break(home.b, [m.b EXCEPT !.df = FALSE])
     ELSE Done(home.b, m.b, CopiedFresh(home.b, to), FALSE)

-----------------------------------------------------------------------------
(* The reference counts of Buffer.                                         *)

\* What another Buffer that refers to the same memory holds of b.
Reference(b) ==
  [Empty EXCEPT !.alloc = b.alloc, !.device = b.device,
                !.device_interface = b.device_interface, !.dev_ref_count = b.dev_ref_count]

\* A device block without a count came from a pipeline: incref takes ownership of it.
incref(h, b) ==
  LET r == IF b.device # NULL /\ b.dev_ref_count = NULL THEN Min(FreeRefCounts(h))
                                                        ELSE b.dev_ref_count
      owned == IF r = b.dev_ref_count THEN h.dev
               ELSE [h.dev EXCEPT ![r] = [count |-> 1, ownership |-> "Allocated",
                                          cropped_from |-> Empty]]
  IN [h |-> [h EXCEPT
               !.ref_count = IF b.alloc = NULL THEN @ ELSE [@ EXCEPT ![b.alloc] = @ + 1],
               !.dev = IF b.device = NULL THEN @ ELSE [owned EXCEPT ![r].count = @ + 1]],
      b |-> [b EXCEPT !.dev_ref_count = r]]

\* How decref_dev gives up the device block when nobody else refers to it.
ReleaseByOwnership(h, b) ==
  LET ownership == IF b.dev_ref_count = NULL THEN "Allocated"
                   ELSE h.dev[b.dev_ref_count].ownership
  IN IF b.device = NULL \/ (ownership # "Cropped" /\ Invalid(b)) THEN h
     ELSE IF ownership \in {"Cropped", "WrappedNative"} THEN BackendRelease(h)
     ELSE BackendFree(h, b)

MutDeletedAsBase(h, b) ==
  LET r == b.dev_ref_count
  IN IF r = NULL THEN ReleaseByOwnership(h, b)
     ELSE IF h.dev[r].count > 1 THEN [h EXCEPT !.dev[r].count = @ - 1]
     ELSE [ReleaseByOwnership(h, b) EXCEPT !.dev[r] = NULL]

RECURSIVE decref(_, _), decref_dev(_, _)
decref_dev(h, b) ==
  LET r == b.dev_ref_count
      d == h.dev[r]
      released == ReleaseByOwnership(h, b)
      deleted == [released EXCEPT !.dev[r] = NULL]
  IN IF r = NULL THEN released
     ELSE IF d.count > 1 THEN [h EXCEPT !.dev[r].count = @ - 1]
     ELSE IF d.ownership = "Cropped" THEN decref(deleted, d.cropped_from)
     ELSE deleted

decref(h, b) ==
  IF b.alloc = NULL THEN decref_dev(h, b)
  ELSE decref_dev([h EXCEPT !.ref_count[b.alloc] = @ - 1],
                  [b EXCEPT !.alloc = NULL, !.host_dirty = FALSE])

\* The fields that decref and decref_dev leave.
NoDevice(b) ==
  [b EXCEPT !.device = NULL, !.device_interface = NULL, !.dev_ref_count = NULL, !.df = FALSE]

\* The assertion of decref_dev.
MayDrop(h, b) ==
  \/ b.device = NULL
  \/ b.dev_ref_count # NULL /\ h.dev[b.dev_ref_count].count > 1
  \/ ~(b.alloc # NULL /\ b.device_dirty)

-----------------------------------------------------------------------------
(* The methods of Buffer.                                                  *)

\* allocate(): deallocate(), then a new block.  The contents are undefined.
Allocate(o) ==
  LET b == obj[o]
      h == decref(Heap, b)
      a == Min(FreeAllocations(h))
  IN /\ FreeAllocations(h) # {}
     /\ BecomesHeap([h EXCEPT !.ref_count[a] = 1])
     /\ BecomesObj([obj EXCEPT ![o] = [NoDevice(b) EXCEPT
                   !.alloc = a, !.host_dirty = @ /\ b.alloc = NULL,
                   !.hf = TRUE, !.aliased = FALSE, !.settled = ~b.device_dirty]])

Deallocate(o) ==
  /\ BecomesHeap(decref(Heap, obj[o]))
  /\ BecomesObj([obj EXCEPT ![o] = [NoDevice(@) EXCEPT
                !.alloc = NULL, !.host_dirty = @ /\ obj[o].alloc = NULL, !.settled = FALSE]])

\* ~Buffer(), and a default-constructed object in its place.
Destroy(o) ==
  /\ obj[o] # Empty
  /\ BecomesHeap(decref(Heap, obj[o]))
  /\ BecomesObj([obj EXCEPT ![o] = Empty])

\* d = s
CopyAssign(d, s) ==
  LET i == incref(Heap, obj[s])
  IN /\ d # s /\ obj[s] # Empty
     /\ BecomesHeap(decref(i.h, obj[d]))
     /\ BecomesObj([obj EXCEPT ![s] = [i.b EXCEPT !.aliased = TRUE],
                           ![d] = [i.b EXCEPT !.aliased = TRUE]])

\* d = std::move(s)
MoveAssign(d, s) ==
  /\ d # s /\ obj[s] # Empty
  /\ BecomesHeap(decref(Heap, obj[d]))
  /\ BecomesObj([obj EXCEPT ![d] = obj[s], ![s] = Empty])

\* DevRefCountCropped: the Buffer that keeps the memory of a crop of s; a crop of a
\* crop keeps the memory of the first source.
MutKeepsNothing(h, s) == [h |-> h, b |-> Empty]
CroppedFrom(h, s) ==
  LET parent == h.dev[s.dev_ref_count]
  IN incref(h, IF parent.ownership = "Cropped" THEN parent.cropped_from ELSE Reference(s))

\* complete_device_crop: im is the copy of s whose device reference was dropped.
\* halide_device_crop uses the module before it asks the backend, which may refuse.
complete_device_crop(h, s, im) ==
  LET i == CroppedFrom(h, s)
      r == Min(FreeRefCounts(i.h))
  IN IF "nocrop" \in program.methods
     THEN [h |-> [h EXCEPT !.module_uses = @ + 1], b |-> im]
     ELSE
     [h |-> [i.h EXCEPT !.dev[r] = [count |-> 1, ownership |-> "Cropped",
                                    cropped_from |-> i.b],
                        !.module_uses = @ + 1],
      b |-> [im EXCEPT !.device = s.device, !.device_interface = s.device_interface,
                       !.device_dirty = s.device_dirty, !.dev_ref_count = r, !.df = s.df]]

\* d = s.cropped(..), and s.crop(..) when d is s.
Crop(d, s) ==
  LET i == incref(Heap, obj[s])
      h == decref_dev(i.h, i.b)
      c == IF obj[s].device_interface = NULL THEN [h |-> h, b |-> NoDevice(i.b)]
           ELSE complete_device_crop(h, i.b, NoDevice(i.b))
      src == [i.b EXCEPT !.aliased = @ \/ d # s]
  IN /\ obj[s] # Empty
     /\ d = s => obj[s].device_interface # NULL
     /\ "nocrop" \in program.methods => module_uses < MaxUses
     /\ BecomesHeap(decref(c.h, IF d = s THEN i.b ELSE obj[d]))
     /\ BecomesObj([obj EXCEPT ![s] = src, ![d] = [c.b EXCEPT !.aliased = src.aliased]])

\* An access through operator(), which calls set_host_dirty().
HostWrite(o) ==
  /\ obj[o].alloc # NULL /\ ~obj[o].device_dirty
  /\ BecomesObj([obj EXCEPT ![o] = [@ EXCEPT !.host_dirty = TRUE, !.hf = TRUE, !.df = FALSE,
                                         !.settled = TRUE]])
  /\ UNCHANGED <<ref_count, dev, live, module_uses>>

\* A pipeline that updates the Buffer on the device: copy_to_device, the kernel and
\* set_device_dirty().
DeviceWrite(o, i, F) ==
  LET r == copy_to_device_already_locked(Heap, obj[o], i, F)
  IN /\ obj[o] # Empty
     /\ BecomesHeap(r.h)
     /\ BecomesObj([obj EXCEPT ![o] =
                  IF r.err THEN r.b
                  ELSE [r.b EXCEPT !.device_dirty = TRUE, !.df = TRUE, !.hf = FALSE,
                                   !.settled = TRUE]])

CopyToDevice(o, i, F) ==
  LET r == copy_to_device_already_locked(Heap, obj[o], i, F)
  IN /\ obj[o].host_dirty
     /\ BecomesHeap(r.h)
     /\ BecomesObj([obj EXCEPT ![o] = r.b])

CopyToHost(o, F) ==
  LET r == copy_to_host_already_locked(obj[o], F)
  IN /\ obj[o].device_dirty /\ obj[o].device_interface # NULL /\ ~Invalid(obj[o])
     /\ BecomesObj([obj EXCEPT ![o] = r.b])
     /\ UNCHANGED <<ref_count, dev, live, module_uses>>

DeviceMalloc(o, i, F) ==
  LET r == halide_device_malloc(Heap, obj[o], i, F)
  IN /\ obj[o] # Empty
     /\ BecomesHeap(r.h)
     /\ BecomesObj([obj EXCEPT ![o] = r.b])

\* Calls of the program that would fail an assertion are not made.
SoleOwner(o, ownership) ==
  LET r == obj[o].dev_ref_count
  IN r # NULL => dev[r].ownership = ownership /\ dev[r].count = 1

\* The device copy is gone; the host copy is what remains.
WithoutDevice(b) == [NoDevice(b) EXCEPT !.settled = @ /\ b.host_dirty]

\* device_free and device_detach_native: the count is deleted even when the
\* interface refuses the buffer.
DeviceFree(o) ==
  LET b == obj[o]
      h == IF Invalid(b) THEN Heap ELSE BackendFree(Heap, b)
      r == b.dev_ref_count
  IN /\ b.device_interface # NULL /\ SoleOwner(o, "Allocated")
     /\ BecomesHeap(IF r = NULL THEN h ELSE [h EXCEPT !.dev[r] = NULL])
     /\ BecomesObj([obj EXCEPT ![o] = IF Invalid(b) THEN [b EXCEPT !.dev_ref_count = NULL]
                                                ELSE WithoutDevice(b)])

DetachNative(o) ==
  LET b == obj[o]
      h == IF Invalid(b) THEN Heap ELSE BackendRelease(Heap)
  IN /\ b.dev_ref_count # NULL /\ SoleOwner(o, "WrappedNative")
     /\ BecomesHeap([h EXCEPT !.dev[b.dev_ref_count] = NULL])
     /\ BecomesObj([obj EXCEPT ![o] = IF Invalid(b) THEN [b EXCEPT !.dev_ref_count = NULL]
                                                ELSE WithoutDevice(b)])

WrapNative(o, i) ==
  LET r == Min(FreeRefCounts(Heap))
  IN /\ obj[o].device = NULL /\ ~Invalid(obj[o])
     /\ BecomesHeap([Heap EXCEPT !.module_uses = @ + 1,
                                 !.dev[r] = [count |-> 1, ownership |-> "WrappedNative",
                                             cropped_from |-> Empty]])
     /\ BecomesObj([obj EXCEPT ![o] = [@ EXCEPT !.device = Native, !.device_interface = i,
                   !.dev_ref_count = r, !.df = FALSE, !.settled = @ /\ obj[o].host_dirty]])

DeviceDeallocate(o) ==
  /\ obj[o].device # NULL /\ MayDrop(Heap, obj[o])
  /\ BecomesHeap(decref_dev(Heap, obj[o]))
  /\ BecomesObj([obj EXCEPT ![o] = WithoutDevice(@)])

\* halide_buffer_copy.  It uses the module of the interface that the source has
\* before, and releases that of the one it has afterwards.
MutReleaseForgotten(before, after) == 1
unbalanced_uses(before, after) ==
  (IF before.device_interface = NULL THEN 0 ELSE 1) - (IF after.device_interface = NULL THEN 0 ELSE 1)

BufferCopy(s, d, to, F) ==
  LET r == halide_buffer_copy_already_locked(Heap, obj[s], obj[d], s = d, to, F)
      known == [r.d EXCEPT !.aliased = @ \/ obj[s].aliased,
                           !.settled = CASE r.holds = "before" -> @
                                         [] r.holds = "source" -> obj[s].settled
                                         [] r.holds = "half" -> FALSE]
  IN /\ obj[s].alloc # NULL \/ obj[s].device # NULL
     /\ obj[d].alloc # NULL \/ obj[d].device # NULL
     /\ s = d /\ to # NULL /\ obj[s].device_interface = NULL
          => "self" \in program.methods /\ module_uses > -MaxUses
     /\ BecomesHeap([r.h EXCEPT !.module_uses = @ + unbalanced_uses(obj[s], r.s)])
     /\ BecomesObj([obj EXCEPT ![s] = r.s, ![d] = known])

-----------------------------------------------------------------------------
\* At most one of the calls S of the backend fails.
Failures(S) == {{}} \cup {{f} : f \in S}

Init ==
  /\ program \in Programs
  /\ obj = [o \in Objects |-> Empty]
  /\ ref_count = [a \in Allocations |-> 0]
  /\ dev = [r \in RefCounts |-> NULL]
  /\ live = {} /\ module_uses = 0

Lifetime(o) ==
  \/ Allocate(o) \/ Deallocate(o) \/ Destroy(o)
  \/ \E s \in program.objects : MoveAssign(o, s)

Share(o) ==
  /\ "share" \in program.methods
  /\ \E s \in program.objects : CopyAssign(o, s) \/ Crop(o, s)

Device(o) ==
  \/ DeviceFree(o) \/ DeviceDeallocate(o)
  \/ \E F \in Failures({"malloc"}), i \in program.interfaces : DeviceMalloc(o, i, F)

Wrap(o) ==
  /\ "wrap" \in program.methods
  /\ DetachNative(o) \/ \E i \in program.interfaces : WrapNative(o, i)

Transfer(o) ==
  /\ "transfer" \in program.methods
  /\ \/ HostWrite(o)
     \/ \E F \in Failures({"copy"}) : CopyToHost(o, F)
     \/ \E F \in Failures({"malloc", "copy"}), i \in program.interfaces :
          DeviceWrite(o, i, F) \/ CopyToDevice(o, i, F)
     \/ /\ "copy" \in program.methods
        /\ \E F \in Failures({"malloc", "copy", "second"}), d \in program.objects,
              to \in program.interfaces \cup {NULL} : BufferCopy(o, d, to, F)

\* A copy between two runtimes through the host memory of a Buffer whose device copy is
\* marked dirty fails and leaves it with both dirty bits set, which "violates a Halide
\* invariant" (HalideRuntime.h): what is called on it then is refused, and the methods
\* that give up its device block delete the count of a block that stays.  A program goes
\* no further.
BothDirty == \E o \in Objects : obj[o].host_dirty /\ obj[o].device_dirty

Next ==
  /\ ~BothDirty
  /\ \E o \in program.objects : Lifetime(o) \/ Share(o) \/ Device(o) \/ Wrap(o) \/ Transfer(o)
  /\ UNCHANGED program
Spec == Init /\ [][Next]_vars

-----------------------------------------------------------------------------
\* Every Buffer there is: the objects, and the ones embedded in a crop's count.
Crops == {r \in RefCounts : dev[r] # NULL /\ dev[r].ownership = "Cropped"}
Embedded == [r \in Crops |-> dev[r].cropped_from]
AllBuffers(P(_)) ==
  Cardinality({o \in Objects : P(obj[o])}) + Cardinality({r \in Crops : P(Embedded[r])})

\* Whether b knows that its device block is the application's.
WrapsNative(b) ==
  /\ b.dev_ref_count # NULL
  /\ dev[b.dev_ref_count] # NULL /\ dev[b.dev_ref_count].ownership \in {"WrappedNative", "Cropped"}

\* No Buffer, and no crop, refers to memory that has been given back: incref and
\* decref keep host and device blocks for the last one that refers to them, also
\* when the object a crop was made from is gone.
NoDanglingMemory ==
  LET Dangling(b) == \/ b.alloc # NULL /\ ref_count[b.alloc] = 0
                     \/ b.device \notin live \cup {Native, NULL}
                     \/ b.dev_ref_count # NULL /\ dev[b.dev_ref_count] = NULL
  IN AllBuffers(Dangling) = 0

\* The counts are exact, so nothing leaks: host blocks, device blocks and counts are
\* kept for exactly as many Buffers as refer to them.  A wrapped block keeps the count
\* that says that it is not the runtime's to free.
CountsExact ==
  /\ \A a \in Allocations : LET Holds(b) == b.alloc = a
                            IN ref_count[a] = AllBuffers(Holds)
  /\ \A r \in RefCounts : LET Holds(b) == b.dev_ref_count = r
                          IN AllBuffers(Holds) = IF dev[r] = NULL THEN 0 ELSE dev[r].count
  /\ \A p \in live : \E o \in Objects : obj[o].device = p
  /\ LET Unwrapped(b) == b.device = Native /\ ~WrapsNative(b) IN AllBuffers(Unwrapped) = 0

\* The uses of a module that are still needed: every device block, wrapped block and
\* crop is given back through it.
UsesNeeded == Cardinality({r \in RefCounts : dev[r] # NULL})
            + Cardinality({o \in Objects : obj[o].device # NULL /\ obj[o].dev_ref_count = NULL})

\* The runtime of a device stays loaded as long as something has to be given back
\* through it, and no longer: halide_device_malloc, halide_device_crop and
\* halide_buffer_copy use and release its module in step.  A crop that the runtime
\* refuses leaves a use behind, so that a module may be kept too long; copying a Buffer
\* onto itself where it had no device memory releases once too often.  Neither does more.
ModuleKept ==
  /\ "self" \notin program.methods => module_uses >= UsesNeeded
  /\ "nocrop" \notin program.methods => module_uses <= UsesNeeded

\* The dirty bits tell the truth: they are not both set, and the copy that is not
\* dirty behind the other one holds the data last written, so copy_to_host,
\* copy_to_device and halide_buffer_copy always read a current copy, also after
\* transfers that failed.  This is for objects whose contents are defined on both sides
\* and were not left half-written by a halide_buffer_copy that failed, and, where the
\* data are meant, whose memory no other object changes.
DirtyBitsTruthful ==
  \A o \in Objects :
    LET b == obj[o]
    IN b.settled =>
      /\ ~(b.host_dirty /\ b.device_dirty)
      /\ ~b.aliased => /\ b.alloc # NULL /\ ~b.device_dirty => b.hf
                       /\ b.device # NULL /\ ~b.host_dirty => b.df
=============================================================================
