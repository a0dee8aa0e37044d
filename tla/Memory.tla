------------------------------- MODULE Memory -------------------------------
(***************************************************************************)
(* The memory that crosses the two ABIs.  For WebAssembly (crates/pz-wasm, *)
(* packages/js): the bytes the JavaScript wrapper copies in, the cell for  *)
(* an out-parameter, the bytes the module hands out, and the encoders and  *)
(* decoders behind the handles.  For C (crates/pz-ffi): the PzBuffers its  *)
(* caller holds.                                                           *)
(*                                                                         *)
(* A step is one call of the wrapper into the module with the JavaScript   *)
(* around it.  The allocator returns any free address, and forgets nothing *)
(* of what it was asked for.  What a call allocates and frees again before *)
(* it returns is left out, and so are calls that neither allocate nor free *)
(* (getters, reset(), and every call that throws before it reaches the     *)
(* module).  The modelled C caller frees each PzBuffer once, as told.      *)
(***************************************************************************)
EXTENDS Integers

CONSTANTS
  Addresses,    (* where blocks can be; 0 is the null pointer              *)
  CAddresses,   (* the same for the C library                              *)
  Lengths,      (* lengths of payloads, images, frames and messages        *)
  Spare,        (* by how much a vector's capacity may exceed its length   *)
  MaxObjects    (* bound: JavaScript objects made                          *)

Objects == 1 .. MaxObjects

ASSUME MemoryAssumption ==
  /\ Addresses \cup CAddresses \subseteq Nat \ {0}
  /\ Lengths \subseteq Nat \ {0}
  /\ Spare \subseteq Nat
  /\ MaxObjects \in Nat

VARIABLES
  heap,         (* the layout of the block at each address of the module   *)
  kind,         (* of each JavaScript object: Encoder, Decoder, not made   *)
  handle,       (* its _handle                                             *)
  call,         (* the wrapper's call in progress                          *)
  c_heap,       (* the heap of the C library                               *)
  held,         (* the buffers its caller holds                            *)
  sound,        (* every access and free so far met the block it meant     *)
  trapped       (* the allocator has failed during some call               *)

objects == <<kind, handle>>
c_side == <<c_heap, held>>
mvars == <<heap, objects, call, c_side, sound, trapped>>

(* Layouts: what the allocator must be told again when a block is freed.   *)
Vacant == <<"vacant", 0>>
Bytes(n) == <<"bytes", n>>
Box(k) == <<k, 0>>
Usize == Bytes(4)

Kinds == {"encoder", "decoder"}
Layouts == (Kinds \cup {"vacant", "bytes"}) \X Nat

Vacancies(h) == {a \in DOMAIN h : h[a] = Vacant}
Live(h) == {a \in DOMAIN h : h[a] # Vacant}

(* object: 0 for the Encoder that encode() is to make; cell: the usize at  *)
(* out; made: the handle of a new encoder.                                 *)
NoCall == [phase |-> "idle", object |-> 0, ptr |-> 0, len |-> 0, out |-> 0,
           cell |-> 0, made |-> 0]

MInit ==
  /\ heap = [a \in Addresses |-> Vacant]
  /\ kind = [o \in Objects |-> "none"]
  /\ handle = [o \in Objects |-> 0]
  /\ call = NoCall
  /\ c_heap = [a \in CAddresses |-> Vacant]
  /\ held = {}
  /\ sound = TRUE
  /\ trapped = FALSE

----------------------------------------------------------------------------
(* The module.                                                             *)

(* pz_alloc: a boxed slice of len zeros.                                   *)
pz_alloc(a, len) ==
  /\ a \in Vacancies(heap)
  /\ heap' = [heap EXCEPT ![a] = Bytes(len)]

(* Box::into_raw.                                                          *)
into_raw(a, k) ==
  /\ a \in Vacancies(heap)
  /\ heap' = [heap EXCEPT ![a] = Box(k)]

(* pz_free: the vector is rebuilt with its length for capacity.            *)
pz_free(ptr, len) ==
  IF ptr = 0 \/ len = 0 THEN UNCHANGED <<heap, sound>>
  ELSE /\ sound' = (sound /\ heap[ptr] = Bytes(len))
       /\ heap' = [heap EXCEPT ![ptr] = Vacant]

(* The module reads or writes the object behind a handle, and a block.     *)
Reaches(o) == o # 0 => heap[handle[o]] = Box(kind[o])

(* Mutant: the vector is leaked with the capacity it has.                  *)
Bug_into_buffer(a, len, cap) ==
  /\ a \in Vacancies(heap)
  /\ heap' = [heap EXCEPT ![a] = Bytes(cap)]

(* into_buffer: whatever the capacity was, a boxed slice has its length.   *)
into_buffer(a, len, cap) ==
  /\ a \in Vacancies(heap)
  /\ heap' = [heap EXCEPT ![a] = Bytes(len)]

----------------------------------------------------------------------------
(* JavaScript.  Objects are numbered as they are made.                     *)
NextObject(o) == kind[o] = "none" /\ \A p \in 1 .. o - 1 : kind[p] # "none"

(* _check() passes.                                                        *)
Open(o, k) == kind[o] = k /\ handle[o] # 0

(* decoder().                                                              *)
NewDecoder ==
  /\ call = NoCall
  /\ \E o \in Objects, a \in Addresses :
       /\ NextObject(o)
       /\ into_raw(a, "decoder")
       /\ kind' = [kind EXCEPT ![o] = "decoder"]
       /\ handle' = [handle EXCEPT ![o] = a]
  /\ UNCHANGED <<call, c_side, sound, trapped>>

(* _write(): the payload of encode() or the image of ingestRGBA() and      *)
(* ingestPNG() is copied into the module.                                  *)
Write ==
  /\ call = NoCall
  /\ \E o \in Objects \cup {0}, a \in Addresses, n \in Lengths :
       /\ IF o = 0 THEN \E p \in Objects : NextObject(p) ELSE Open(o, "decoder")
       /\ pz_alloc(a, n)
       /\ call' = [NoCall EXCEPT !.phase = "written", !.object = o,
                                 !.ptr = a, !.len = n]
  /\ UNCHANGED <<objects, c_side, sound, trapped>>

(* pz_encoder_new: it copies what it needs; null if it refuses.            *)
EncoderNew ==
  /\ call.phase = "written" /\ call.object = 0
  /\ sound' = (sound /\ heap[call.ptr] = Bytes(call.len))
  /\ \/ /\ call' = [call EXCEPT !.phase = "done"]
        /\ UNCHANGED heap
     \/ \E a \in Addresses :
          /\ into_raw(a, "encoder")
          /\ call' = [call EXCEPT !.phase = "done", !.made = a]
  /\ UNCHANGED <<objects, c_side, trapped>>

(* pz_decoder_ingest_*: whatever it returns, the decoder keeps nothing of  *)
(* the image.                                                              *)
Ingested ==
  /\ call.phase = "written" /\ call.object # 0
  /\ sound' = (sound /\ Reaches(call.object) /\ heap[call.ptr] = Bytes(call.len))
  /\ call' = [call EXCEPT !.phase = "done"]
  /\ UNCHANGED <<heap, objects, c_side, trapped>>

(* The argument is freed; only then a null handle or a negative code is    *)
(* thrown, and a handle becomes an Encoder.                                *)
GiveBack ==
  /\ call.phase = "done"
  /\ pz_free(call.ptr, call.len)
  /\ IF call.made = 0 THEN UNCHANGED objects
     ELSE \E o \in Objects :
            /\ NextObject(o)
            /\ kind' = [kind EXCEPT ![o] = "encoder"]
            /\ handle' = [handle EXCEPT ![o] = call.made]
  /\ call' = NoCall
  /\ UNCHANGED <<c_side, trapped>>

(* _scratch(): frameRGBA(), framePNG(), frameCells() or result().          *)
Scratch ==
  /\ call = NoCall
  /\ \E o \in Objects, a \in Addresses :
       /\ \E k \in Kinds : Open(o, k)
       /\ pz_alloc(a, 4)
       /\ call' = [NoCall EXCEPT !.phase = "asked", !.object = o, !.out = a]
  /\ UNCHANGED <<objects, c_side, sound, trapped>>

(* pz_encoder_frame_* and pz_decoder_result: null leaves the cell as it is. *)
Produce ==
  /\ call.phase = "asked"
  /\ sound' = (sound /\ Reaches(call.object) /\ heap[call.out] = Usize)
  /\ \/ /\ call' = [call EXCEPT !.phase = "answered"]
        /\ UNCHANGED heap
     \/ \E a \in Addresses, n \in Lengths, s \in Spare :
          /\ into_buffer(a, n, n + s)
          /\ call' = [call EXCEPT !.phase = "answered", !.ptr = a, !.cell = n]
  /\ UNCHANGED <<objects, c_side, trapped>>

(* _readLen(), and the cell is freed.                                      *)
ReadLen ==
  /\ call.phase = "answered"
  /\ pz_free(call.out, 4)
  /\ call' = [call EXCEPT !.phase = "measured", !.len = call.cell, !.out = 0]
  /\ UNCHANGED <<objects, c_side, trapped>>

(* _take(): null, or a copy is made and the module's bytes are freed.      *)
Take ==
  /\ call.phase = "measured"
  /\ pz_free(call.ptr, call.len)
  /\ call' = NoCall
  /\ UNCHANGED <<objects, c_side, trapped>>

(* free(), "safe to call more than once": the second time it does nothing. *)
FreeObject ==
  /\ call = NoCall
  /\ \E o \in Objects :
       /\ handle[o] # 0
       /\ sound' = (sound /\ Reaches(o))
       /\ heap' = [heap EXCEPT ![handle[o]] = Vacant]
       /\ handle' = [handle EXCEPT ![o] = 0]
  /\ UNCHANGED <<kind, call, c_side, trapped>>

(* The allocator fails: vec! and Box do not return null but abort, which   *)
(* for WebAssembly is a trap, and the wrapper's call ends there and then   *)
(* with an exception.  A trap in pz_alloc leaves all as it was.            *)
ModuleTraps ==
  /\ call.phase \in {"written", "asked"}
  /\ trapped' = TRUE
  /\ call' = NoCall
  /\ UNCHANGED <<heap, objects, c_side, sound>>

----------------------------------------------------------------------------
(* C.                                                                      *)

(* PzBuffer::from_vec: length and capacity go out together.                *)
from_vec(a, len, cap) == [data |-> a, len |-> len, cap |-> cap]

(* pz_encoder_frame_* and pz_decoder_result.                               *)
CTake ==
  /\ \E a \in Vacancies(c_heap), n \in Lengths, s \in Spare :
       /\ c_heap' = [c_heap EXCEPT ![a] = Bytes(n + s)]
       /\ held' = held \cup {from_vec(a, n, n + s)}
  /\ UNCHANGED <<heap, objects, call, sound, trapped>>

pz_buffer_free ==
  /\ \E b \in held :
       /\ sound' = (sound /\ c_heap[b.data] = Bytes(b.cap))
       /\ c_heap' = [c_heap EXCEPT ![b.data] = Vacant]
       /\ held' = held \ {b}
  /\ UNCHANGED <<heap, objects, call, trapped>>

MNext ==
  \/ NewDecoder \/ Write \/ EncoderNew \/ Ingested \/ GiveBack
  \/ Scratch \/ Produce \/ ReadLen \/ Take \/ FreeObject
  \/ ModuleTraps
  \/ CTake \/ pz_buffer_free

MSpec == MInit /\ [][MNext]_mvars

----------------------------------------------------------------------------
Call == [phase : {"idle", "written", "done", "asked", "answered", "measured"},
         object : Objects \cup {0}, ptr : Addresses \cup {0}, len : Nat,
         out : Addresses \cup {0}, cell : Nat, made : Addresses \cup {0}]

MTypeOK ==
  /\ heap \in [Addresses -> Layouts]
  /\ kind \in [Objects -> Kinds \cup {"none"}]
  /\ handle \in [Objects -> Addresses \cup {0}]
  /\ call \in Call
  /\ c_heap \in [CAddresses -> Layouts]
  /\ held \subseteq [data : CAddresses, len : Nat, cap : Nat]
  /\ trapped \in BOOLEAN

Handles == {handle[o] : o \in Objects} \ {0}

(* Through any sequence of calls, refusals and frees of JavaScript, and    *)
(* with any number of C buffers out, no block is freed twice, after its    *)
(* address was given to another, or with another layout than it was        *)
(* allocated with, and none is used after it was freed.  Between two calls *)
(* of the wrapper the module holds nothing but the objects that are not    *)
(* freed: every failing call gave back what it had allocated, unless the   *)
(* allocator itself failed meanwhile: no call frees its argument after an  *)
(* exception from the module.                                              *)
MemoryIsAccounted ==
  /\ sound
  /\ call = NoCall /\ ~trapped => Live(heap) = Handles
  /\ Live(c_heap) = {b.data : b \in held}

----------------------------------------------------------------------------
(* What makes MemoryIsAccounted inductive: each block has one owner, an    *)
(* object, the call in progress or a C buffer, which knows its layout.     *)
ObjectsOwn ==
  /\ \A o \in Objects : handle[o] # 0 =>
       /\ kind[o] \in Kinds
       /\ heap[handle[o]] = Box(kind[o])
  /\ \A o, p \in Objects : handle[o] # 0 /\ handle[o] = handle[p] => o = p

(* ptr is as long as the cell says until the length is read from it.       *)
CallOwns ==
  /\ call.ptr # 0 =>
       /\ call.ptr # call.out
       /\ LET n == IF call.phase = "answered" THEN call.cell ELSE call.len
          IN n # 0 /\ heap[call.ptr] = Bytes(n)
  /\ call.out # 0 => heap[call.out] = Usize
  /\ call.made # 0 => heap[call.made] = Box("encoder") /\ call.made \notin Handles

CallInPhase ==
  /\ call.phase = "idle" => call = NoCall
  /\ call.phase \in {"written", "done"} => call.ptr # 0 /\ call.out = 0
  /\ call.phase \in {"asked", "answered"} => call.out # 0
  /\ call.phase = "asked" => call.ptr = 0
  /\ call.phase = "measured" => call.out = 0
  /\ call.made # 0 => call.phase = "done"
  /\ call.object # 0 /\ call.phase \in {"written", "asked"} => handle[call.object] # 0

BuffersOwn ==
  /\ \A b \in held : c_heap[b.data] = Bytes(b.cap)
  /\ \A b, c \in held : b.data = c.data => b = c
  /\ Live(c_heap) \subseteq {b.data : b \in held}

NothingLost ==
  ~trapped =>
    Live(heap) \subseteq Handles \cup {call.ptr, call.out, call.made}

MInv ==
  /\ MTypeOK
  /\ ObjectsOwn
  /\ CallOwns
  /\ CallInPhase
  /\ BuffersOwn
  /\ NothingLost
  /\ sound
=============================================================================
