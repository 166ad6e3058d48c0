---------------------------- MODULE ResultCodec ----------------------------
(***************************************************************************)
(* The durable record of a build-execution result (result_codec.cpp): a    *)
(* result the executor returned is encoded, the record lies somewhere      *)
(* while others may change or rewrite it, and somebody opens it with the   *)
(* build request, execution request and backend profile they hold.         *)
(*                                                                         *)
(* A record is modelled by how its bytes parse: one component for every    *)
(* field and an "extent" that says where the bytes end or stop making      *)
(* sense.  SHA-256 is taken to be injective: an identity is what it        *)
(* identifies, the checksum is the fields it was computed from.  A text is *)
(* its length, a path also its rank in the order of paths.                 *)
(***************************************************************************)
EXTENDS Integers, FiniteSets, SequencesExt, Sorting

CONSTANTS
    Results,          \* what the executor may have returned
    Authorities,      \* what somebody may present with a record
    BuildPurpose,     \* the execution requests that are for a build
    Rewrites,         \* field -> values that others may write into it
    MaxRewrites,      \* fields rewritten
    MaxDiagnostic,    \* maximum_diagnostic_size
    MaxText,          \* maximum_text_size
    MaxEntries,       \* maximum_payload_entry_count
    MaxSize           \* maximum_build_execution_result_encoding_size

ASSUME LimitsAssumption ==
    {MaxRewrites, MaxDiagnostic, MaxText, MaxEntries, MaxSize} \subseteq Nat

ASSUME AuthoritiesAssumption ==
    \A a \in Authorities :
        a = [build |-> a.build, request |-> a.request, backend |-> a.backend]

VARIABLES
    stage,      \* "made", "kept" (encoded) or "over"
    result,     \* the result to keep
    record,     \* its record, as it lies there
    rewrites,   \* fields rewritten so far
    presented,  \* the authority the record was opened with
    outcome     \* "restored", or the code of the error that was thrown
vars == <<stage, result, record, rewrites, presented, outcome>>

Some(opt) == opt # <<>>
Optional(opt) == opt = <<>> \/ opt = <<opt[1]>>
-----------------------------------------------------------------------------
(***************************************************************************)
(* Results, as execute_sealed makes them.  An optional part is a sequence  *)
(* of at most one element.                                                 *)
(***************************************************************************)
FailedExecution(build, execution) ==
    [build |-> build, execution |-> execution, failure |-> <<>>,
     diagnostic |-> execution.diagnostic, payload |-> <<>>, artifact |-> <<>>,
     receipt |-> <<>>]

FailedSealing(build, execution, kind, diagnostic) ==
    [FailedExecution(build, execution) EXCEPT !.failure = <<kind>>,
                                              !.diagnostic = diagnostic]

\* The archive was inspected by its digest, and lists the payload.
Succeeded(build, execution, payload, artifact) ==
    [FailedExecution(build, execution) EXCEPT
        !.diagnostic = 0, !.payload = <<payload>>, !.artifact = <<artifact>>,
        !.receipt = <<[digest |-> artifact.digest, entries |-> Len(payload),
                       intact |-> TRUE]>>]

\* A failure with nothing else, or a success with a canonical manifest and a
\* receipt for the archive it names.
Returnable(r) ==
    LET x == r.execution IN
    \/ x.status # "succeeded" /\ r = FailedExecution(r.build, x)
    \/ x.status = "succeeded" /\ \E kind \in ToSet(r.failure) :
            r = FailedSealing(r.build, x, kind, r.diagnostic)
    \/ x.status = "succeeded" /\ \E p \in ToSet(r.payload), a \in ToSet(r.artifact) :
            /\ r = Succeeded(r.build, x, p, a)
            /\ \A j, k \in DOMAIN p : j < k => p[j].path < p[k].path

\* Entries are a sequence, the ranks of their paths are numbers.
IsPayload(p) == p \in Seq(ToSet(p)) /\ \A e \in ToSet(p) : e.path \in Nat

\* What the inspection of an archive finds is of a known type, and only
\* regular files have a size.
ASSUME ResultsAssumption ==
    \A r \in Results :
        /\ Returnable(r) /\ r.execution.request \in BuildPurpose
        /\ "unknown" \notin ToSet(r.failure)
        /\ \A a \in ToSet(r.artifact) : a.format = "package_tar"
        /\ \A p \in ToSet(r.payload) : IsPayload(p) /\ \A e \in ToSet(p) :
                e.type # "unknown" /\ (e.size = 0 \/ e.type = "regular")

Accomplished(r) == r.execution.status = "succeeded" /\ ~Some(r.failure)

\* The failure of the execution, that of sealing it, or none.
FailureEvidence(r) ==
    CASE r.execution.status # "succeeded" ->
            [of |-> "execution", execution |-> r.execution, kind |-> <<>>]
      [] r.execution.status = "succeeded" /\ Some(r.failure) ->
            [of |-> "sealing", execution |-> r.execution, kind |-> r.failure]
      [] OTHER -> [of |-> "none"]

\* The identity of the build result that the evidence leads to.
BuildIdentity(r) ==
    [request |-> r.build, evidence |-> r.execution,
     failure |-> FailureEvidence(r), payload |-> r.payload,
     artifact |-> r.artifact]

ReceiptIsBound(r) ==
    \A p \in ToSet(r.payload), a \in ToSet(r.artifact), c \in ToSet(r.receipt) :
        c.digest = a.digest /\ c.entries = Len(p)

\* Plausible mistake: any failure is expected to have no diagnostic of its own.
ValidOnlySealed(r) ==
    IF Accomplished(r)
    THEN /\ r.diagnostic = 0
         /\ Some(r.payload) /\ Some(r.artifact) /\ Some(r.receipt)
         /\ ReceiptIsBound(r)
    ELSE /\ ~Some(r.payload) /\ ~Some(r.artifact) /\ ~Some(r.receipt)
         /\ ~Some(r.failure) /\ r.diagnostic = r.execution.diagnostic

\* The shape every result has: a failure carries no evidence of a success.
Valid(r) ==
    IF Accomplished(r)
    THEN /\ r.diagnostic = 0
         /\ Some(r.payload) /\ Some(r.artifact) /\ Some(r.receipt)
         /\ ReceiptIsBound(r)
    ELSE /\ ~Some(r.payload) /\ ~Some(r.artifact) /\ ~Some(r.receipt)
         /\ r.execution.status # "succeeded" =>
                ~Some(r.failure) /\ r.diagnostic = r.execution.diagnostic
-----------------------------------------------------------------------------
(***************************************************************************)
(* Records.                                                                *)
(***************************************************************************)
Authority(r) == [build |-> r.build, request |-> r.execution.request,
                 backend |-> r.execution.backend]

Fields(r) ==
    [format |-> "ours", build |-> r.build, request |-> r.execution.request,
     backend |-> r.execution.backend, execution |-> r.execution,
     identity |-> BuildIdentity(r), embedded |-> <<r.execution>>,
     outcome |-> IF Accomplished(r) THEN "succeeded" ELSE "failed",
     failure |-> r.failure, diagnostic |-> r.diagnostic,
     payload |-> r.payload, artifact |-> r.artifact, receipt |-> r.receipt,
     extent |-> "exact"]

Record(r) == [fields |-> Fields(r), checksum |-> Fields(r)]

\* What the bytes of a field can parse to.
Parses(field, value) ==
    /\ field \in {"embedded", "failure", "payload", "artifact", "receipt"}
            => Optional(value)
    /\ field = "payload" => \A p \in ToSet(value) : IsPayload(p)
    /\ field = "receipt" => \A c \in ToSet(value) :
            c \in [digest : {c.digest}, entries : {c.entries}, intact : BOOLEAN]

ASSUME RewritesAssumption ==
    \A field \in DOMAIN Rewrites : \A value \in Rewrites[field] :
        Parses(field, value)

\* The texts of a record, and its entries, are what makes it long.
Texts(payload) ==
    FoldSeq(LAMBDA p, n : FoldSeq(LAMBDA e, k : e.text + k, n, p), 0, payload)
Size(f) == f.diagnostic + Texts(f.payload)

\* encode_build_execution_result refuses any other.
Keepable(r) ==
    /\ Valid(r)
    /\ r.diagnostic <= MaxDiagnostic
    /\ \A p \in ToSet(r.payload) : Len(p) <= MaxEntries
    /\ Size(r) <= MaxSize

\* Entries the reader accepts: of a known type, with texts of a bounded
\* length, and a size only for regular files.
ReadableEntry(e) ==
    /\ e.type # "unknown" /\ e.text <= MaxText
    /\ e.size = 0 \/ e.type = "regular"

\* What payload_manifest::seal makes of entries: each path once, in order.
Manifest(p) == SortedBy(p, [k \in DOMAIN p |-> p[k].path])
Sealable(p) == Cardinality({e.path : e \in ToSet(p)}) = Len(p)

\* What can be told before any identity has been read.
Framed(x) ==
    /\ Size(x.fields) <= MaxSize
    /\ x.checksum = x.fields
    /\ x.fields.format = "ours"
    /\ x.fields.extent # "header"

\* Plausible mistake: the build request is left to the build identity.
PresentedForExecution(f, a) ==
    /\ f.request = a.request /\ f.backend = a.backend
    /\ a.request \in BuildPurpose

Presented(f, a) ==
    /\ f.build = a.build /\ f.request = a.request /\ f.backend = a.backend
    /\ a.request \in BuildPurpose

Readable(f) ==
    /\ \A e \in ToSet(f.embedded) : e = f.execution
    /\ f.outcome \in {"succeeded", "failed"}
    /\ "unknown" \notin ToSet(f.failure)
    /\ f.diagnostic <= MaxDiagnostic
    /\ \A p \in ToSet(f.payload) :
        /\ Len(p) <= MaxEntries /\ Sealable(p)
        /\ \A e \in ToSet(p) : ReadableEntry(e)
    /\ \A a \in ToSet(f.artifact) : a.format = "package_tar"
    /\ \A c \in ToSet(f.receipt) : c.intact
    /\ f.extent = "exact"

\* The result that readable fields describe.
Restored(f, a) ==
    [build |-> a.build, execution |-> f.embedded[1], failure |-> f.failure,
     diagnostic |-> f.diagnostic,
     payload |-> [k \in DOMAIN f.payload |-> Manifest(f.payload[k])],
     artifact |-> f.artifact, receipt |-> f.receipt]

\* The build outcome is the one the evidence leads to, and so is the identity.
Corresponds(f, r) ==
    /\ (f.outcome = "succeeded") = Accomplished(r)
    /\ f.identity = BuildIdentity(r)

\* Plausible mistake: the retained identities are held to be proof enough.
TrustsIdentities(x, r) == Keepable(r)

\* The restored result, encoded again, is the record.
Canonical(x, r) == Keepable(r) /\ Record(r) = x

\* The embedded evidence is decoded by libpkgexec, under the same authority.
Foreign(f, a) ==
    \E e \in ToSet(f.embedded) : e.request # a.request \/ e.backend # a.backend

Opens(x, a) ==
    LET f == x.fields IN
    /\ Framed(x) /\ Presented(f, a)
    /\ Some(f.embedded) /\ ~Foreign(f, a)
    /\ Readable(f)
    /\ LET r == Restored(f, a) IN
        Valid(r) /\ Corresponds(f, r) /\ Canonical(x, r)

\* decode_build_execution_result: what it finds first decides.
Decode(x, a) ==
    CASE Opens(x, a) -> "restored"
      [] Framed(x) /\ (~Presented(x.fields, a) \/ Foreign(x.fields, a)) ->
            "mismatch"
      [] OTHER -> "corrupt"
-----------------------------------------------------------------------------
Init ==
    /\ stage = "made"
    /\ result \in Results
    /\ record = Record(result)
    /\ rewrites = 0
    /\ presented = Authority(result)
    /\ outcome = "none"

Encode ==
    /\ stage = "made"
    /\ IF Keepable(result)
       THEN stage' = "kept" /\ UNCHANGED outcome
       ELSE stage' = "over" /\ outcome' = "inconsistent"
    /\ UNCHANGED <<result, record, rewrites, presented>>

\* Others change the bytes of a field, or cut or lengthen the record.
Rewrite ==
    /\ stage = "kept" /\ rewrites < MaxRewrites
    /\ \E field \in DOMAIN Rewrites : \E value \in Rewrites[field] :
        record' = [record EXCEPT !.fields[field] = value]
    /\ rewrites' = rewrites + 1
    /\ UNCHANGED <<stage, result, presented, outcome>>

\* They write a checksum that fits, too.
Refit ==
    /\ stage = "kept" /\ record.checksum # record.fields
    /\ record' = [record EXCEPT !.checksum = record.fields]
    /\ UNCHANGED <<stage, result, rewrites, presented, outcome>>

Open(a) ==
    /\ stage = "kept"
    /\ presented' = a
    /\ outcome' = Decode(record, a)
    /\ stage' = "over"
    /\ UNCHANGED <<result, record, rewrites>>

Over == stage = "over" /\ UNCHANGED vars

Next == Encode \/ Rewrite \/ Refit \/ Over \/ \E a \in Authorities : Open(a)

Spec == Init /\ [][Next]_vars
-----------------------------------------------------------------------------
(***************************************************************************)
(* "Every shape must round-trip exactly" (TESTING.md): a result is kept    *)
(* unless its diagnostic, its payload or its record is above a limit, and  *)
(* its untouched record, opened by whoever has the authority of the        *)
(* result, is that result again.  One thing stands between the two: the    *)
(* encoder writes texts of a payload that the decoder finds too long.      *)
(***************************************************************************)
TextsFit(r) == \A p \in ToSet(r.payload) : \A e \in ToSet(p) : e.text <= MaxText
Fits(r) ==
    /\ r.diagnostic <= MaxDiagnostic /\ Size(r) <= MaxSize
    /\ \A p \in ToSet(r.payload) : Len(p) <= MaxEntries
RoundTrip ==
    /\ stage = "over" /\ Fits(result) => outcome # "inconsistent"
    /\ stage = "over" /\ record = Record(result)
            /\ presented = Authority(result) /\ Fits(result)
       => /\ (outcome = "restored") = TextsFit(result)
          /\ TextsFit(result) => Restored(record.fields, presented) = result

(***************************************************************************)
(* Whatever was done to the bytes, a record that opens is the record of a  *)
(* result the executor could have returned to its holder, under the very   *)
(* authority that was presented; and no other bytes stand for that result. *)
(***************************************************************************)
OpensOnlyGenuine ==
    outcome = "restored" =>
        LET r == Restored(record.fields, presented) IN
        /\ Returnable(r) /\ Authority(r) = presented
        /\ Fits(r) /\ TextsFit(r) /\ Record(r) = record

(***************************************************************************)
(* Who may open a record is told apart from what is wrong with it: the     *)
(* untouched record of a result, presented with any other authority, is an *)
(* authority mismatch, not corruption; a record that was rewritten without *)
(* touching an identity of its authority is never a mismatch for whoever   *)
(* holds that authority; and no record opens for two authorities.          *)
(***************************************************************************)
Named(x) ==
    [build : {x.fields.build},
     request : {x.fields.request} \cup {e.request : e \in ToSet(x.fields.embedded)},
     backend : {x.fields.backend} \cup {e.backend : e \in ToSet(x.fields.embedded)}]
AuthorityIsTold ==
    stage = "over" /\ outcome # "inconsistent" =>
        /\ record = Record(result) /\ presented # Authority(result)
                => outcome = "mismatch"
        /\ Named(record) = {presented} /\ presented.request \in BuildPurpose
                => outcome # "mismatch"
        /\ outcome = "restored" =>
                \A a \in Authorities \ {presented} :
                    Decode(record, a) = "mismatch"
=============================================================================
