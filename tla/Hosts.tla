------------------------------- MODULE Hosts -------------------------------
(***************************************************************************)
(* The programs that put the core decoder and encoder before their users:  *)
(* the C ABI (crates/pz-ffi), the WebAssembly module (crates/pz-wasm), the *)
(* Python extension (bindings/python) and the pz command (crates/pz-cli).  *)
(*                                                                         *)
(* Each owns a core decoder of its own.  The model offers every image to   *)
(* all of them in one step, so their inner decoders go through the same    *)
(* states, those of Session.tla; what differs, and what is modelled here,  *)
(* is what each wrapper keeps beside the decoder, what it tells its        *)
(* caller and which calls it refuses before the core sees them.  The       *)
(* memory they hand out and take back is in Memory.tla.                    *)
(***************************************************************************)
EXTENDS Session, FiniteSets

CONSTANTS
  Requests,     (* arguments of encoder constructors, see Request          *)
  DerivedId     (* the id the encoder folds from the message's CRC-32      *)

Hosts == {"ffi", "wasm", "python", "cli"}

(* session: an integer argument, negative or absent for "derive one".      *)
Request == [payload : {"null", "empty", "bytes"},
            profile : {"balanced", "mono", "unknown"}, session : Int]

ASSUME RequestAssumption == Requests \subseteq Request
MaxId == 65535    (* u16::MAX *)

ASSUME IdAssumption == DerivedId \in 0 .. MaxId

VARIABLES
  last,         (* the last call: "none", "ingest", "refused", "reset" or  *)
                (* "other" for one of an encoder or a result               *)
  ffi_status,   (* what *status holds                                      *)
  ffi_out,      (* the caller's PzProgress, which ingest writes through    *)
  wasm,         (* [returned, kind]: the last code and the outcome cached  *)
                (* beside the decoder                                      *)
  py,           (* [raised, seen, status]: the caller's last Status object, *)
                (* and whether it is of the present reception              *)
  cli,          (* pz decode: "reading", "wrote", "failed" or "detached"   *)
  cli_out,      (* what it wrote                                           *)
  enc           (* enc[h]: h's encoder, [id, pinned], or None              *)

views == <<ffi_status, ffi_out, wasm, py, cli, cli_out>>
hvars == <<vars, last, views, enc>>

----------------------------------------------------------------------------
(* The getters of the core decoder.                                        *)
Known == IF session = None THEN 0
         ELSE Cardinality(Recovered(session, absorbed))
Total == IF session = None THEN 0 ELSE BlockCount(session)

(* A fraction is a pair <<recovered, of>>; progress() is 1 when finished.  *)
Share == IF finished # None THEN <<1, 1>>
         ELSE IF session = None THEN <<0, 1>> ELSE <<Known, Total>>

AtLeast(a, b) == a[1] * b[2] >= b[1] * a[2]

Errors == {"too_large", "checksum_mismatch"}

(* Progress::fraction of the outcome o.                                    *)
Fraction(o, known, total) ==
  CASE o = "complete" -> <<1, 1>>
    [] o = "progressed" -> <<known, total>>
    [] OTHER -> <<0, 1>>

----------------------------------------------------------------------------
(* C ABI.                                                                  *)
PzStatus(o) == CASE o = "too_large" -> "PayloadTooLarge"
                 [] o = "checksum_mismatch" -> "ChecksumMismatch"
                 [] OTHER -> "Ok"

(* PzProgress; its frame index is left out, as it is for WebAssembly.      *)
DefaultProgress == [kind |-> "not_found", recovered |-> 0, total |-> 0,
                    fraction |-> <<0, 1>>]

(* The fields that only a Progressed carries keep their defaults otherwise. *)
progress_to_c(o, known, total) ==
  LET base == [DefaultProgress EXCEPT !.kind = o,
                                      !.fraction = Fraction(o, known, total)]
  IN IF o = "progressed"
     THEN [base EXCEPT !.recovered = known, !.total = total]
     ELSE base

(* Mutant: guard() reports the error it caught as success.                 *)
Bug_FfiIngest ==
  /\ ffi_status' = "Ok"
  /\ ffi_out' = progress_to_c(outcome', Known', Total')

(* guard(): the status is always written, the caller's struct only when    *)
(* the core returned Ok.                                                   *)
FfiIngest ==
  /\ ffi_status' = PzStatus(outcome')
  /\ IF outcome' \in Errors
     THEN UNCHANGED ffi_out
     ELSE ffi_out' = progress_to_c(outcome', Known', Total')

(* Null handles or pointers, an empty image, a short buffer.               *)
FfiRefuse ==
  /\ ffi_status' = "InvalidArgument"
  /\ UNCHANGED ffi_out

----------------------------------------------------------------------------
(* WebAssembly.                                                            *)
Code(o) == CASE o = "not_found" -> 0
             [] o = "rejected" -> 1
             [] o = "progressed" -> 2
             [] o = "complete" -> 3
             [] o \in Errors -> -1

WasmIngest == wasm' = [returned |-> Code(outcome'), kind |-> Code(outcome')]

(* A bad argument, or a PNG it cannot read (which returns -2); nothing is  *)
(* cached.                                                                 *)
WasmRefuse == wasm' = [wasm EXCEPT !.returned = -1]

FreshWasm == [returned |-> 0, kind |-> 0]

(* A method, not an ingest: the last code stays with the caller.           *)
WasmReset == wasm' = [FreshWasm EXCEPT !.returned = wasm.returned]

----------------------------------------------------------------------------
(* Python.                                                                 *)
(* Mutant: the counts are taken from the Progress variant.                 *)
Bug_status(o, known, total, share) ==
  [kind |-> o, complete |-> o = "complete",
   recovered |-> IF o = "progressed" THEN known ELSE 0,
   total |-> IF o = "progressed" THEN total ELSE 0,
   fraction |-> Fraction(o, known, total)]

(* Decoder::status: every number is read from the decoder.                 *)
status(o, known, total, share) ==
  [kind |-> o, complete |-> o = "complete",
   recovered |-> known, total |-> total, fraction |-> share]

PyIngest ==
  IF outcome' \in Errors
  THEN py' = [py EXCEPT !.raised = TRUE]
  ELSE py' = [raised |-> FALSE, seen |-> TRUE,
              status |-> status(outcome', Known', Total', Share')]

PyRefuse == py' = [py EXCEPT !.raised = TRUE]

----------------------------------------------------------------------------
(* pz decode: one decoder over the files of its argument list.  The first  *)
(* error ends it, Complete ends it with a file or standard output written  *)
(* (or not, if that fails), any other outcome goes on to the next file.    *)
CliIngest ==
  IF cli # "reading" THEN UNCHANGED <<cli, cli_out>>
  ELSE CASE outcome' = "complete" ->
              \/ cli' = "wrote" /\ cli_out' = finished'
              \/ cli' = "failed" /\ UNCHANGED cli_out
         [] outcome' \in Errors -> cli' = "failed" /\ UNCHANGED cli_out
         [] OTHER -> UNCHANGED <<cli, cli_out>>

(* The argument list is exhausted.                                         *)
CliEnds ==
  /\ cli = "reading"
  /\ cli' = "failed"
  /\ UNCHANGED <<vars, last, ffi_status, ffi_out, wasm, py, cli_out, enc>>

----------------------------------------------------------------------------
(* Encoder construction: None, or the session id of the encoder.           *)
Derived(r) == IF r.session < 0 THEN DerivedId ELSE r.session

(* config_to: unknown codes are refused, the id is cut to 16 bits.         *)
config_to(r) == IF r.profile = "unknown" THEN None ELSE Derived(r) % (MaxId + 1)

FfiEncoder(r) == IF r.payload # "bytes" THEN None ELSE config_to(r)

FfiEncoderStatus(r) ==
  CASE r.payload = "null" -> "InvalidArgument"
    [] r.payload # "null" /\ r.profile = "unknown" -> "UnsupportedFormat"
    [] r.payload = "empty" /\ r.profile # "unknown" -> "EmptyPayload"
    [] OTHER -> "Ok"

(* Mutant: the id is cut instead of refused.                               *)
Bug_WasmEncoder(r) ==
  IF r.payload # "bytes" \/ r.profile = "unknown" THEN None
  ELSE Derived(r) % (MaxId + 1)

WasmEncoder(r) ==
  IF r.payload # "bytes" \/ r.profile = "unknown" \/ r.session > MaxId
  THEN None
  ELSE Derived(r)

(* config_for, and config_from of the pz command, which has no mono.       *)
PyProfiles == {"balanced", "mono"}
CliProfiles == {"balanced"}

(* Option<u16> in the signature: pyo3 refuses what does not fit; absent    *)
(* is None.  A bytes argument is never null.                               *)
PyEncoder(r) ==
  IF r.payload # "bytes" \/ r.profile \notin PyProfiles \/ r.session > MaxId
  THEN None
  ELSE Derived(r)

(* --session is parsed as u16; an empty or missing input is an error.      *)
CliEncoder(r) ==
  IF r.payload # "bytes" \/ r.profile \notin CliProfiles \/ r.session > MaxId
  THEN None
  ELSE Derived(r)

NewEncoder(r) ==
  /\ LET id(h) == CASE h = "ffi" -> FfiEncoder(r)
                    [] h = "wasm" -> WasmEncoder(r)
                    [] h = "python" -> PyEncoder(r)
                    [] h = "cli" -> CliEncoder(r)
     IN enc' = [h \in Hosts |-> IF id(h) = None THEN None
                                ELSE [id |-> id(h), pinned |-> r.session]]
  /\ ffi_status' = FfiEncoderStatus(r)
  /\ last' = "other"
  /\ UNCHANGED <<vars, ffi_out, wasm, py, cli, cli_out>>

(* pz_encoder_free: null is a no-op, and the handle is not used again.     *)
FreeEncoders ==
  /\ enc' = [h \in Hosts |-> None]
  /\ UNCHANGED <<vars, last, views>>

----------------------------------------------------------------------------
(* A frame, as cells, pixels or a PNG file.  Encoder::frame cannot fail    *)
(* for an encoder that was built.                                          *)
FfiFrame ==
  /\ ffi_status' = IF enc["ffi"] = None THEN "InvalidArgument" ELSE "Ok"
  /\ last' = "other"
  /\ UNCHANGED <<vars, ffi_out, wasm, py, cli, cli_out, enc>>

(* The result is copied, as often as it is asked for.                      *)
FfiResult ==
  /\ ffi_status' = IF finished = None THEN "NotComplete" ELSE "Ok"
  /\ last' = "other"
  /\ UNCHANGED <<vars, ffi_out, wasm, py, cli, cli_out, enc>>

----------------------------------------------------------------------------
HInit ==
  /\ Init
  /\ last = "none"
  /\ ffi_status = "Ok"
  /\ ffi_out = DefaultProgress
  /\ wasm = FreshWasm
  /\ py = [raised |-> FALSE, seen |-> FALSE, status |-> status("none", 0, 0, <<0, 1>>)]
  /\ cli = "reading"
  /\ cli_out = None
  /\ enc = [h \in Hosts |-> None]

(* Every host offers one image (or one frame) to its decoder.              *)
Offer ==
  /\ last' = "ingest"
  /\ FfiIngest
  /\ WasmIngest
  /\ PyIngest
  /\ CliIngest
  /\ UNCHANGED enc

OfferFrame(t, i) == Ingest(t, i) /\ Offer
OfferNothing == IngestNothing /\ Offer
OfferUnreadable == IngestUnreadable /\ Offer

(* Every host is given an unusable argument, pz a file it cannot read; the *)
(* core decoder is not called, and pz goes on with the next file.          *)
Refuse ==
  /\ last' = "refused"
  /\ FfiRefuse
  /\ WasmRefuse
  /\ PyRefuse
  /\ UNCHANGED <<vars, cli, cli_out, enc>>

(* reset(), or a decoder freed and replaced.  pz has neither: its decoder  *)
(* is followed no further.                                                 *)
ResetAll ==
  /\ Reset
  /\ last' = "reset"
  /\ WasmReset
  /\ py' = [py EXCEPT !.seen = FALSE]
  /\ cli' = IF cli = "reading" THEN "detached" ELSE cli
  /\ UNCHANGED <<ffi_status, ffi_out, cli_out, enc>>

HNext ==
  \/ \E t \in Transmitters, i \in Indices : OfferFrame(t, i)
  \/ OfferNothing
  \/ OfferUnreadable
  \/ Refuse
  \/ ResetAll
  \/ CliEnds
  \/ \E r \in Requests : NewEncoder(r)
  \/ FreeEncoders
  \/ FfiFrame
  \/ FfiResult

HSpec == HInit /\ [][HNext]_hvars

----------------------------------------------------------------------------
(* The hosts agree on what a call did.  A call that a host reports as      *)
(* having worked is reported so by all; a report of completion comes with  *)
(* a result to take, also after resets, refused calls and errors between   *)
(* them; what pz wrote is one transmitter's message.  A status that is not *)
(* Ok says nothing of the progress struct, which may be an old one.        *)
HostsAgree ==
  /\ last = "ingest" =>
       /\ (ffi_status = "Ok") <=> (wasm.returned >= 0)
       /\ (ffi_status = "Ok") <=> ~py.raised
  /\ last = "refused" =>
       ffi_status = "InvalidArgument" /\ wasm.returned < 0 /\ py.raised
  /\ last \in {"ingest", "refused"} =>
       /\ ffi_status = "Ok" /\ ffi_out.kind = "complete" => finished # None
       /\ wasm.returned = 3 => finished # None
       /\ ~py.raised /\ py.status.complete => finished # None
  /\ wasm.kind = 3 => finished # None
  /\ cli = "wrote" => \E t \in Transmitters : cli_out = Message[t]

(* Between two resets the progress a Python caller is shown, and what the  *)
(* WebAssembly getters read from the decoder, never falls, whichever       *)
(* outcomes come between ("Taking the counts from the variant meant a      *)
(* routine NotFound reported 0/0 halfway through a transfer").             *)
ShownProgressNeverFalls ==
  [][resets' = resets =>
       /\ py.seen =>
            /\ py'.status.recovered >= py.status.recovered
            /\ AtLeast(py'.status.fraction, py.status.fraction)
       /\ AtLeast(Share', Share)]_<<vars, py>>

(* What encoder e of host h does with the id its caller gave.              *)
Sends(h, e) ==
  /\ e.id \in 0 .. MaxId
  /\ e.pinned < 0 => e.id = DerivedId
  /\ e.pinned >= 0 /\ (h # "ffi" \/ e.pinned <= MaxId) => e.id = e.pinned

(* An encoder sends the session id its caller pinned; the C ABI keeps the  *)
(* low 16 bits of one that does not fit, the others refuse it.  Where two  *)
(* hosts both build an encoder for a pinned id that fits, or for none, the *)
(* streams are of one session.                                             *)
PinnedIdIsSent == \A h \in Hosts : enc[h] # None => Sends(h, enc[h])
============================================================================
