-------------------------- MODULE ResultCodecProofs --------------------------
(***************************************************************************)
(* What the durable record of a result guarantees, for every set of        *)
(* results, authorities and rewrites, and any number of rewrites.          *)
(***************************************************************************)
EXTENDS ResultCodec, SequenceLemmas

FieldName == {"format", "build", "request", "backend", "execution", "identity",
              "embedded", "outcome", "failure", "diagnostic", "payload",
              "artifact", "receipt", "extent"}

IsAuthority(a) ==
    a = [build |-> a.build, request |-> a.request, backend |-> a.backend]

(***************************************************************************)
(* The inductive invariant: only what fits is kept, every field parses,    *)
(* and what was found on opening is still what would be found.             *)
(***************************************************************************)
Parsed(f) ==
    /\ FieldName \subseteq DOMAIN f
    /\ \A field \in FieldName : Parses(field, f[field])

Codec ==
    /\ result \in Results
    /\ stage \in {"made", "kept", "over"}
    /\ IsAuthority(presented)
    /\ "fields" \in DOMAIN record
    /\ Parsed(record.fields)
    /\ stage # "over" => outcome = "none"
    /\ stage = "kept" => Keepable(result)
    /\ stage = "over" =>
        \/ outcome = "inconsistent" /\ ~Keepable(result)
        \/ outcome = Decode(record, presented) /\ Keepable(result)

LEMMA SingleIsOptional == \A x : Optional(<<x>>) /\ ToSet(<<x>>) = {x}
<1> TAKE x
<1>1. Optional(<<x>>)
  BY DEF Optional
<1>2. DOMAIN <<x>> = {1} /\ <<x>>[1] = x
  OBVIOUS
<1>3. ToSet(<<x>>) = {x}
  BY <1>2 DEF ToSet
<1>4. QED
  BY <1>1, <1>3

LEMMA NoneIsOptional == Optional(<<>>) /\ ToSet(<<>>) = {} /\ ~Some(<<>>)
BY DEF Optional, ToSet, Some

\* An optional part that is there is one.
LEMMA OptionalIsSingle ==
  ASSUME NEW opt, Optional(opt), Some(opt)
  PROVE  opt = <<opt[1]>> /\ ToSet(opt) = {opt[1]}
<1>1. opt = <<opt[1]>>
  BY DEF Optional, Some
<1>2. ToSet(<<opt[1]>>) = {opt[1]}
  BY SingleIsOptional
<1>3. QED
  BY <1>1, <1>2

\* The results the executor returns have optional parts, and parse.
LEMMA ResultsParse ==
  ASSUME NEW r \in Results
  PROVE  Parsed(Fields(r))
<1>1. Returnable(r) /\ \A p \in ToSet(r.payload) : IsPayload(p)
  BY ResultsAssumption
<1>2. /\ Optional(r.failure) /\ Optional(r.payload)
      /\ Optional(r.artifact) /\ Optional(r.receipt)
      /\ \A c \in ToSet(r.receipt) :
            c \in [digest : {c.digest}, entries : {c.entries}, intact : BOOLEAN]
  <2>1. CASE r = FailedExecution(r.build, r.execution)
    BY <2>1, NoneIsOptional DEF FailedExecution
  <2>2. CASE \E kind : r = FailedSealing(r.build, r.execution, kind, r.diagnostic)
    BY <2>2, NoneIsOptional, SingleIsOptional DEF FailedSealing, FailedExecution
  <2>3. CASE \E p, a : r = Succeeded(r.build, r.execution, p, a)
    <3>1. PICK p, a : r = Succeeded(r.build, r.execution, p, a)
      BY <2>3
    <3> DEFINE c == [digest |-> a.digest, entries |-> Len(p), intact |-> TRUE]
    <3>2. /\ r.failure = <<>> /\ r.payload = <<p>> /\ r.artifact = <<a>>
          /\ r.receipt = <<c>>
      BY <3>1 DEF Succeeded, FailedExecution
    <3>3. c \in [digest : {c.digest}, entries : {c.entries}, intact : BOOLEAN]
      OBVIOUS
    <3> HIDE DEF c
    <3> QED BY <3>2, <3>3, NoneIsOptional, SingleIsOptional
  <2>4. QED
    BY <1>1, <2>1, <2>2, <2>3 DEF Returnable
<1> DEFINE f == Fields(r)
<1>3. /\ FieldName \subseteq DOMAIN f
      /\ f.embedded = <<r.execution>> /\ f.failure = r.failure
      /\ f.payload = r.payload /\ f.artifact = r.artifact /\ f.receipt = r.receipt
  BY DEF Fields, FieldName
<1> HIDE DEF f
<1>4. /\ Parses("embedded", f["embedded"]) /\ Parses("failure", f["failure"])
      /\ Parses("payload", f["payload"]) /\ Parses("artifact", f["artifact"])
      /\ Parses("receipt", f["receipt"])
  BY <1>1, <1>2, <1>3, SingleIsOptional DEF Parses
<1>5. \A field \in FieldName \ {"embedded", "failure", "payload", "artifact",
                                "receipt"} : Parses(field, f[field])
  BY DEF Parses
<1>6. QED
  BY <1>3, <1>4, <1>5 DEF Parsed, f

LEMMA CodecInit == Init => Codec
<1> SUFFICES ASSUME Init
             PROVE  Codec
  OBVIOUS
<1>1. result \in Results /\ record = Record(result)
  BY DEF Init
<1>2. record.fields = Fields(result) /\ "fields" \in DOMAIN record
  BY <1>1 DEF Record
<1>3. IsAuthority(presented)
  BY DEF Init, Authority, IsAuthority
<1>4. QED
  BY <1>1, <1>2, <1>3, ResultsParse DEF Init, Codec

LEMMA CodecNext ==
  ASSUME Codec, [Next]_vars
  PROVE  Codec'
<1>1. CASE UNCHANGED vars
  BY <1>1 DEF vars, Codec
<1>2. CASE Encode
  BY <1>2 DEF Encode, Codec
<1>3. CASE Rewrite
  <2>1. PICK field \in DOMAIN Rewrites : \E value \in Rewrites[field] :
            record' = [record EXCEPT !.fields[field] = value]
    BY <1>3 DEF Rewrite
  <2>2. PICK value \in Rewrites[field] :
            record' = [record EXCEPT !.fields[field] = value]
    BY <2>1
  <2>3. /\ record'.fields = [record.fields EXCEPT ![field] = value]
        /\ "fields" \in DOMAIN record'
    BY <2>2 DEF Codec
  <2>4. Parses(field, value)
    BY RewritesAssumption
  <2>5. Parsed(record.fields)'
    BY <2>3, <2>4 DEF Codec, Parsed
  <2>6. QED
    BY <1>3, <2>3, <2>5 DEF Rewrite, Codec
<1>4. CASE Refit
  <2>1. record'.fields = record.fields /\ "fields" \in DOMAIN record'
    BY <1>4 DEF Refit, Codec
  <2>2. QED
    BY <1>4, <2>1 DEF Refit, Codec
<1>5. CASE \E a \in Authorities : Open(a)
  <2>1. PICK a \in Authorities : Open(a)
    BY <1>5
  <2>2. IsAuthority(presented')
    BY <2>1, AuthoritiesAssumption DEF Open, IsAuthority
  <2>3. outcome' = Decode(record', presented') /\ record' = record
    BY <2>1 DEF Open
  <2>4. QED
    BY <2>1, <2>2, <2>3 DEF Open, Codec
<1>6. CASE Over
  BY <1>1, <1>6 DEF Over
<1>7. QED
  BY <1>1, <1>2, <1>3, <1>4, <1>5, <1>6 DEF Next

LEMMA CodecAlways == Spec => []Codec
<1>1. QED
  BY CodecInit, CodecNext, PTL DEF Spec
-----------------------------------------------------------------------------
(***************************************************************************)
(* Manifests.                                                              *)
(***************************************************************************)
LEMMA PayloadShape ==
  ASSUME NEW p, IsPayload(p)
  PROVE  /\ Len(p) \in Nat /\ DOMAIN p = 1 .. Len(p)
         /\ p \in [1 .. Len(p) -> ToSet(p)]
         /\ [k \in DOMAIN p |-> p[k].path] \in [1 .. Len(p) -> Nat]
<1>1. p \in Seq(ToSet(p)) /\ \A e \in ToSet(p) : e.path \in Nat
  BY DEF IsPayload
<1>2. /\ Len(p) \in Nat /\ DOMAIN p = 1 .. Len(p)
      /\ p \in [1 .. Len(p) -> ToSet(p)]
  BY <1>1, LenProperties
<1>3. \A k \in 1 .. Len(p) : p[k].path \in Nat
  BY <1>1, <1>2
<1>4. QED
  BY <1>2, <1>3

\* Each path once, in order.
LEMMA ManifestIsOrdered ==
  ASSUME NEW p, IsPayload(p), Sealable(p)
  PROVE  \A j, k \in DOMAIN Manifest(p) :
            j < k => Manifest(p)[j].path < Manifest(p)[k].path
<1> DEFINE n == Len(p)
           key == [k \in DOMAIN p |-> p[k].path]
           s == Sorting(key)
           m == Manifest(p)
<1>1. n \in Nat /\ DOMAIN p = 1 .. n /\ key \in [1 .. n -> Nat]
  BY PayloadShape
<1>2. \A j, k \in 1 .. n : key[j] = key[k] => j = k
  <2> DEFINE T == {key[k] : k \in 1 .. n}
  <2>1. T = {e.path : e \in ToSet(p)}
    <3>1. ToSet(p) = {p[k] : k \in 1 .. n}
      BY <1>1 DEF ToSet
    <3> QED BY <1>1, <3>1
  <2>2. Cardinality(T) = n
    BY <2>1 DEF Sealable
  <2>3. T = {key[k] : k \in 1 .. n} /\ DOMAIN key = 1 .. n
    BY <1>1
  <2> HIDE DEF T, key, n
  <2> QED BY <1>1, <2>2, <2>3, OneEach
<1>3. DOMAIN m = 1 .. n /\ \A k \in 1 .. n : m[k] = p[s[k]]
  BY <1>1 DEF Manifest, SortedBy
<1>4. \A k \in 1 .. n : key[k] = p[k].path
  BY <1>1
<1> HIDE DEF key, n, m
<1>5. /\ s \in [1 .. n -> 1 .. n]
      /\ \A i, j \in 1 .. n : s[i] = s[j] => i = j
      /\ \A i, j \in 1 .. n : i < j => key[s[i]] <= key[s[j]]
  BY <1>1, SortingSorts
<1> HIDE DEF s
<1>6. \A j, k \in 1 .. n : j < k => m[j].path < m[k].path
  <2> TAKE j, k \in 1 .. n
  <2>1. s[j] \in 1 .. n /\ s[k] \in 1 .. n
    BY <1>5
  <2>2. m[j].path = key[s[j]] /\ m[k].path = key[s[k]]
    BY <1>3, <1>4, <2>1
  <2>3. key[s[j]] \in Nat /\ key[s[k]] \in Nat
    BY <1>1, <2>1
  <2>4. CASE j < k
    <3>1. key[s[j]] <= key[s[k]] /\ s[j] # s[k] /\ key[s[j]] # key[s[k]]
      BY <1>2, <1>5, <2>1, <2>4
    <3> QED BY <2>2, <2>3, <3>1
  <2> QED BY <2>4
<1>7. QED
  BY <1>3, <1>6 DEF m

\* A manifest is its own manifest.
LEMMA ManifestStays ==
  ASSUME NEW p, IsPayload(p),
         \A j, k \in DOMAIN p : j < k => p[j].path < p[k].path
  PROVE  Manifest(p) = p /\ Sealable(p)
<1> DEFINE n == Len(p)
           key == [k \in DOMAIN p |-> p[k].path]
           s == Sorting(key)
<1>1. /\ n \in Nat /\ DOMAIN p = 1 .. n /\ key \in [1 .. n -> Nat]
      /\ p \in [1 .. n -> ToSet(p)]
  BY PayloadShape
<1>2. \A j, k \in 1 .. n : j < k => key[j] < key[k]
  BY <1>1
<1>3. ToSet(p) = {p[k] : k \in 1 .. n}
  BY <1>1 DEF ToSet
<1>4. \A k \in 1 .. n : s[k] = k
  <2> HIDE DEF key, n
  <2> QED BY <1>1, <1>2, SortedStays
<1>5. Manifest(p) = [k \in 1 .. n |-> p[s[k]]]
  BY <1>1 DEF Manifest, SortedBy
<1>6. Manifest(p) = p
  <2> HIDE DEF s, n
  <2> QED BY <1>1, <1>4, <1>5
<1>7. Cardinality({e.path : e \in ToSet(p)}) = n
  <2> DEFINE T == {e.path : e \in ToSet(p)}
  <2>1. T = {key[k] : k \in 1 .. n}
    BY <1>1, <1>3
  <2>2. \A j, k \in 1 .. n : key[j] = key[k] => j = k
    <3> TAKE j, k \in 1 .. n
    <3>1. key[j] \in Nat /\ key[k] \in Nat
      BY <1>1
    <3>2. j < k \/ k < j \/ j = k
      BY <1>1
    <3> HIDE DEF key, n
    <3> QED BY <1>2, <3>1, <3>2
  <2>3. DOMAIN key = 1 .. n
    BY <1>1
  <2> HIDE DEF key, T, n
  <2>4. key \in Bijection(1 .. n, T)
    BY <1>1, <2>1, <2>2, <2>3 DEF Bijection, Injection, Surjection, IsInjective
  <2>5. IsFiniteSet(1 .. n) /\ Cardinality(1 .. n) = n
    <3>1. (IF 1 > n THEN 0 ELSE n - 1 + 1) = n
      BY <1>1
    <3> QED BY <1>1, <3>1, FS_Interval
  <2>6. Cardinality(T) = n
    BY <2>4, <2>5, FS_Bijection DEF ExistsBijection
  <2> QED BY <2>6 DEF T
<1>8. QED
  BY <1>6, <1>7 DEF Sealable
-----------------------------------------------------------------------------
(***************************************************************************)
(* Opening a record.                                                       *)
(***************************************************************************)
LEMMA RestoredParts ==
  ASSUME NEW f, NEW a
  PROVE  LET r == Restored(f, a) IN
         /\ r = [build |-> r.build, execution |-> r.execution,
                 failure |-> r.failure, diagnostic |-> r.diagnostic,
                 payload |-> r.payload, artifact |-> r.artifact,
                 receipt |-> r.receipt]
         /\ r.build = a.build /\ r.execution = f.embedded[1]
         /\ r.failure = f.failure /\ r.diagnostic = f.diagnostic
         /\ r.payload = [k \in DOMAIN f.payload |-> Manifest(f.payload[k])]
         /\ r.artifact = f.artifact /\ r.receipt = f.receipt
BY DEF Restored

LEMMA FieldsParts ==
  ASSUME NEW r
  PROVE  LET f == Fields(r) IN
         /\ f.build = r.build /\ f.request = r.execution.request
         /\ f.backend = r.execution.backend
         /\ f.execution = r.execution /\ f.identity = BuildIdentity(r)
         /\ f.embedded = <<r.execution>>
         /\ f.outcome = IF Accomplished(r) THEN "succeeded" ELSE "failed"
         /\ f.failure = r.failure /\ f.diagnostic = r.diagnostic
         /\ f.payload = r.payload /\ f.artifact = r.artifact
         /\ f.receipt = r.receipt
BY DEF Fields

\* Results, part by part.
LEMMA SealingParts ==
  ASSUME NEW b, NEW x, NEW kind, NEW d
  PROVE  FailedSealing(b, x, kind, d) =
            [build |-> b, execution |-> x, failure |-> <<kind>>,
             diagnostic |-> d, payload |-> <<>>, artifact |-> <<>>,
             receipt |-> <<>>]
<1>1. FailedSealing(b, x, kind, d) \in
        [build : {b}, execution : {x}, failure : {<<kind>>}, diagnostic : {d},
         payload : {<<>>}, artifact : {<<>>}, receipt : {<<>>}]
  BY DEF FailedSealing, FailedExecution
<1>2. QED
  BY <1>1

LEMMA SuccessParts ==
  ASSUME NEW b, NEW x, NEW p, NEW a
  PROVE  Succeeded(b, x, p, a) =
            [build |-> b, execution |-> x, failure |-> <<>>, diagnostic |-> 0,
             payload |-> <<p>>, artifact |-> <<a>>,
             receipt |-> <<[digest |-> a.digest, entries |-> Len(p),
                            intact |-> TRUE]>>]
<1> DEFINE c == [digest |-> a.digest, entries |-> Len(p), intact |-> TRUE]
<1>1. Succeeded(b, x, p, a) =
        [FailedExecution(b, x) EXCEPT !.diagnostic = 0, !.payload = <<p>>,
                                      !.artifact = <<a>>, !.receipt = <<c>>]
  BY DEF Succeeded
<1> HIDE DEF c
<1>2. Succeeded(b, x, p, a) \in
        [build : {b}, execution : {x}, failure : {<<>>}, diagnostic : {0},
         payload : {<<p>>}, artifact : {<<a>>}, receipt : {<<c>>}]
  BY <1>1 DEF FailedExecution
<1>3. QED
  BY <1>2 DEF c

\* The two shapes of a failure.
LEMMA ShapeOfFailure ==
  ASSUME NEW r, Valid(r), ~Accomplished(r), Optional(r.failure),
         r = [build |-> r.build, execution |-> r.execution,
              failure |-> r.failure, diagnostic |-> r.diagnostic,
              payload |-> r.payload, artifact |-> r.artifact,
              receipt |-> r.receipt]
  PROVE  Returnable(r)
<1> DEFINE x == r.execution
<1>1. r.payload = <<>> /\ r.artifact = <<>> /\ r.receipt = <<>>
  BY DEF Valid, Some
<1>2. CASE x.status # "succeeded"
  <2>1. r.failure = <<>> /\ r.diagnostic = x.diagnostic
    BY <1>2 DEF Valid, Some
  <2>2. r = FailedExecution(r.build, x)
    BY <1>1, <2>1 DEF FailedExecution
  <2> QED BY <1>2, <2>2 DEF Returnable
<1>3. CASE x.status = "succeeded"
  <2>1. Some(r.failure)
    BY <1>3 DEF Accomplished
  <2>2. PICK kind : r.failure = <<kind>> /\ kind \in ToSet(r.failure)
    BY <2>1, OptionalIsSingle
  <2>3. r = FailedSealing(r.build, x, kind, r.diagnostic)
    BY <1>1, <2>2, SealingParts
  <2> QED BY <1>3, <2>2, <2>3 DEF Returnable
<1>4. QED
  BY <1>2, <1>3

\* The shape of a success.
LEMMA ShapeOfSuccess ==
  ASSUME NEW r, Valid(r), Accomplished(r),
         Optional(r.payload), Optional(r.artifact), Optional(r.receipt),
         \A c \in ToSet(r.receipt) : c.intact
            /\ c \in [digest : {c.digest}, entries : {c.entries}, intact : BOOLEAN],
         \A p \in ToSet(r.payload) :
            \A j, k \in DOMAIN p : j < k => p[j].path < p[k].path,
         r = [build |-> r.build, execution |-> r.execution,
              failure |-> r.failure, diagnostic |-> r.diagnostic,
              payload |-> r.payload, artifact |-> r.artifact,
              receipt |-> r.receipt]
  PROVE  Returnable(r)
<1> DEFINE x == r.execution
<1>1. /\ x.status = "succeeded" /\ r.failure = <<>> /\ r.diagnostic = 0
      /\ Some(r.payload) /\ Some(r.artifact) /\ Some(r.receipt)
      /\ ReceiptIsBound(r)
  BY DEF Valid, Accomplished, Some
<1>2. PICK p : r.payload = <<p>> /\ p \in ToSet(r.payload)
  BY <1>1, OptionalIsSingle
<1>3. PICK a : r.artifact = <<a>> /\ a \in ToSet(r.artifact)
  BY <1>1, OptionalIsSingle
<1>4. PICK c : r.receipt = <<c>> /\ c \in ToSet(r.receipt)
  BY <1>1, OptionalIsSingle
<1>5. c = [digest |-> a.digest, entries |-> Len(p), intact |-> TRUE]
  <2>1. c.digest = a.digest /\ c.entries = Len(p)
    BY <1>1, <1>2, <1>3, <1>4 DEF ReceiptIsBound
  <2>2. c.intact /\ c \in [digest : {c.digest}, entries : {c.entries},
                           intact : BOOLEAN]
    BY <1>4
  <2> QED BY <2>1, <2>2
<1>6. r = Succeeded(r.build, x, p, a)
  BY <1>1, <1>2, <1>3, <1>4, <1>5, SuccessParts
<1>7. QED
  BY <1>1, <1>2, <1>3, <1>6 DEF Returnable

LEMMA OpenedIsGenuine ==
  ASSUME NEW x, NEW a, Opens(x, a), Parsed(x.fields), IsAuthority(a)
  PROVE  LET r == Restored(x.fields, a) IN
         /\ Returnable(r) /\ Authority(r) = a
         /\ Fits(r) /\ TextsFit(r) /\ Record(r) = x
<1> DEFINE f == x.fields
           r == Restored(f, a)
<1>1. /\ Framed(x) /\ Presented(f, a) /\ Some(f.embedded) /\ ~Foreign(f, a)
      /\ Readable(f) /\ Valid(r) /\ Corresponds(f, r)
      /\ Keepable(r) /\ Record(r) = x
  BY DEF Opens, Canonical
<1>2. /\ r = [build |-> r.build, execution |-> r.execution,
              failure |-> r.failure, diagnostic |-> r.diagnostic,
              payload |-> r.payload, artifact |-> r.artifact,
              receipt |-> r.receipt]
      /\ r.build = a.build
      /\ r.payload = [k \in DOMAIN f.payload |-> Manifest(f.payload[k])]
  BY RestoredParts
<1>3. f = Fields(r)
  BY <1>1 DEF Record
<1> HIDE DEF r, f
<1>4. /\ f.embedded = <<r.execution>> /\ f.failure = r.failure
      /\ f.payload = r.payload /\ f.artifact = r.artifact
      /\ f.receipt = r.receipt /\ f.diagnostic = r.diagnostic
  BY <1>3, FieldsParts
<1>5. /\ Optional(r.failure) /\ Optional(r.payload)
      /\ Optional(r.artifact) /\ Optional(r.receipt)
      /\ \A p \in ToSet(r.payload) : IsPayload(p)
      /\ \A c \in ToSet(r.receipt) :
            c \in [digest : {c.digest}, entries : {c.entries}, intact : BOOLEAN]
  <2>1. /\ Parses("failure", f["failure"]) /\ Parses("payload", f["payload"])
        /\ Parses("artifact", f["artifact"]) /\ Parses("receipt", f["receipt"])
    BY DEF Parsed, FieldName, f
  <2> QED BY <1>4, <2>1 DEF Parses
<1>6. /\ \A p \in ToSet(r.payload) : /\ Len(p) <= MaxEntries /\ Sealable(p)
                                     /\ \A e \in ToSet(p) : ReadableEntry(e)
      /\ \A c \in ToSet(r.receipt) : c.intact
      /\ r.diagnostic <= MaxDiagnostic
  BY <1>1, <1>4 DEF Readable
<1>7. \A p \in ToSet(r.payload) :
        \A j, k \in DOMAIN p : j < k => p[j].path < p[k].path
  <2> TAKE p \in ToSet(r.payload)
  <2>1. Some(r.payload)
    BY NoneIsOptional DEF Some
  <2>2. r.payload = <<r.payload[1]>> /\ ToSet(r.payload) = {r.payload[1]}
    BY <1>5, <2>1, OptionalIsSingle
  <2>3. 1 \in DOMAIN r.payload
    BY <2>2
  <2>4. r.payload[1] = Manifest(r.payload[1])
    BY <1>2, <1>4, <2>3
  <2>5. p = Manifest(p) /\ IsPayload(p) /\ Sealable(p)
    BY <1>5, <1>6, <2>2, <2>4
  <2> QED BY <2>5, ManifestIsOrdered
<1>8. Returnable(r)
  <2>1. CASE Accomplished(r)
    BY <1>1, <1>2, <1>5, <1>6, <1>7, <2>1, ShapeOfSuccess
  <2>2. CASE ~Accomplished(r)
    BY <1>1, <1>2, <1>5, <2>2, ShapeOfFailure
  <2> QED BY <2>1, <2>2
<1>9. Authority(r) = a
  <2>1. f.build = a.build /\ f.request = a.request /\ f.backend = a.backend
    BY <1>1 DEF Presented
  <2>2. /\ f.request = r.execution.request /\ f.backend = r.execution.backend
    BY <1>3, FieldsParts
  <2> QED BY <1>2, <2>1, <2>2 DEF Authority, IsAuthority
<1>10. Fits(r)
  BY <1>1, <1>6 DEF Fits, Keepable
<1>11. TextsFit(r)
  BY <1>6 DEF TextsFit, ReadableEntry
<1>12. QED
  BY <1>1, <1>8, <1>9, <1>10, <1>11 DEF r, f

(***************************************************************************)
(* Whatever was written into a record, and however often, one that opens   *)
(* is the record of a result the executor could have returned to its       *)
(* holder, and of no other (decode_build_execution_result).                *)
(***************************************************************************)
THEOREM OnlyGenuineOpens == Spec => []OpensOnlyGenuine
<1>1. Codec => OpensOnlyGenuine
  <2> SUFFICES ASSUME Codec, outcome = "restored"
               PROVE  OpensOnlyGenuine
    BY DEF OpensOnlyGenuine
  <2>1. outcome = Decode(record, presented)
    BY DEF Codec
  <2>2. Opens(record, presented)
    BY <2>1 DEF Decode
  <2> QED BY <2>2, OpenedIsGenuine DEF Codec, OpensOnlyGenuine
<1>2. QED
  BY <1>1, CodecAlways, PTL
-----------------------------------------------------------------------------
(***************************************************************************)
(* Authorities.                                                            *)
(***************************************************************************)
LEMMA OtherAuthorityMismatches ==
  ASSUME NEW x, NEW a, IsAuthority(a), Framed(x),
         a # [build |-> x.fields.build, request |-> x.fields.request,
              backend |-> x.fields.backend]
  PROVE  Decode(x, a) = "mismatch"
<1>1. ~Presented(x.fields, a)
  BY DEF Presented, IsAuthority
<1>2. QED
  BY <1>1 DEF Decode, Opens

LEMMA KeptIsFramed ==
  ASSUME NEW r, Keepable(r)
  PROVE  LET x == Record(r) IN
         /\ Framed(x)
         /\ Authority(r) = [build |-> x.fields.build,
                            request |-> x.fields.request,
                            backend |-> x.fields.backend]
<1> DEFINE f == Fields(r)
<1>1. /\ f.diagnostic = r.diagnostic /\ f.payload = r.payload
      /\ f.build = r.build /\ f.request = r.execution.request
      /\ f.backend = r.execution.backend
  BY FieldsParts
<1>2. f.format = "ours" /\ f.extent = "exact"
  BY DEF Fields
<1> HIDE DEF f
<1>3. Record(r).fields = f /\ Record(r).checksum = f
  BY DEF Record, f
<1>4. Size(f) <= MaxSize
  BY <1>1 DEF Keepable, Size
<1>5. QED
  BY <1>1, <1>2, <1>3, <1>4 DEF Framed, Authority

(***************************************************************************)
(* An authority mismatch is reported to whoever presents another authority *)
(* than that of an untouched record, and only when an identity of an       *)
(* authority differs; a record that opens does so for one authority        *)
(* (the checks that throw mismatch() in decode_build_execution_result).    *)
(***************************************************************************)
THEOREM AuthorityDecides == Spec => []AuthorityIsTold
<1>1. Codec => AuthorityIsTold
  <2> SUFFICES ASSUME Codec, stage = "over", outcome # "inconsistent"
               PROVE  /\ record = Record(result) /\ presented # Authority(result)
                            => outcome = "mismatch"
                      /\ Named(record) = {presented}
                            /\ presented.request \in BuildPurpose
                            => outcome # "mismatch"
                      /\ outcome = "restored" =>
                            \A a \in Authorities \ {presented} :
                                Decode(record, a) = "mismatch"
    BY DEF AuthorityIsTold
  <2>1. /\ outcome = Decode(record, presented) /\ Keepable(result)
        /\ IsAuthority(presented)
    BY DEF Codec
  <2>2. record = Record(result) /\ presented # Authority(result)
            => outcome = "mismatch"
    BY <2>1, KeptIsFramed, OtherAuthorityMismatches
  <2>3. ASSUME Named(record) = {presented}, presented.request \in BuildPurpose
        PROVE  outcome # "mismatch"
    <3> DEFINE f == record.fields
               requests == {f.request} \cup {e.request : e \in ToSet(f.embedded)}
               backends == {f.backend} \cup {e.backend : e \in ToSet(f.embedded)}
    <3>1. \A q \in requests : \A k \in backends :
            [build |-> f.build, request |-> q, backend |-> k] = presented
      <4>1. [build : {f.build}, request : requests, backend : backends] = {presented}
        BY <2>3 DEF Named
      <4> HIDE DEF f, requests, backends
      <4> QED BY <4>1
    <3>2. \A q \in requests : \A k \in backends :
            presented.build = f.build /\ presented.request = q
            /\ presented.backend = k
      <4> TAKE q \in requests
      <4> TAKE k \in backends
      <4> HIDE DEF f
      <4>1. [build |-> f.build, request |-> q, backend |-> k] = presented
        BY <3>1
      <4> QED BY <4>1
    <3>3. Presented(f, presented)
      BY <2>3, <3>2 DEF Presented
    <3>4. ~Foreign(f, presented)
      BY <3>2 DEF Foreign
    <3> QED BY <2>1, <3>3, <3>4 DEF Decode
  <2>4. ASSUME outcome = "restored", NEW a \in Authorities \ {presented}
        PROVE  Decode(record, a) = "mismatch"
    <3>1. Framed(record) /\ Presented(record.fields, presented)
      BY <2>1, <2>4 DEF Decode, Opens
    <3>2. presented = [build |-> record.fields.build,
                       request |-> record.fields.request,
                       backend |-> record.fields.backend]
      BY <2>1, <3>1 DEF Presented, IsAuthority
    <3>3. IsAuthority(a)
      BY AuthoritiesAssumption DEF IsAuthority
    <3> QED BY <2>4, <3>1, <3>2, <3>3, OtherAuthorityMismatches
  <2>5. QED
    BY <2>2, <2>3, <2>4
<1>2. QED
  BY <1>1, CodecAlways, PTL

(***************************************************************************)
(* Round trips.                                                            *)
(***************************************************************************)
LEMMA ReturnableIsValid ==
  ASSUME NEW r, Returnable(r)
  PROVE  Valid(r)
<1> DEFINE x == r.execution
<1>1. CASE x.status # "succeeded" /\ r = FailedExecution(r.build, x)
  <2>1. /\ r.failure = <<>> /\ r.payload = <<>> /\ r.artifact = <<>>
        /\ r.receipt = <<>> /\ r.diagnostic = x.diagnostic
    BY <1>1 DEF FailedExecution
  <2> QED BY <1>1, <2>1 DEF Valid, Accomplished, Some
<1>2. ASSUME NEW kind, r = FailedSealing(r.build, x, kind, r.diagnostic),
             x.status = "succeeded"
      PROVE  Valid(r)
  <2>1. /\ r.failure = <<kind>> /\ r.payload = <<>> /\ r.artifact = <<>>
        /\ r.receipt = <<>>
    BY <1>2, SealingParts
  <2>2. Some(r.failure)
    BY <2>1 DEF Some
  <2> QED BY <1>2, <2>1, <2>2 DEF Valid, Accomplished, Some
<1>3. ASSUME NEW p, NEW a, r = Succeeded(r.build, x, p, a),
             x.status = "succeeded"
      PROVE  Valid(r)
  <2> DEFINE c == [digest |-> a.digest, entries |-> Len(p), intact |-> TRUE]
  <2>0. r = [build |-> r.build, execution |-> x, failure |-> <<>>,
             diagnostic |-> 0, payload |-> <<p>>, artifact |-> <<a>>,
             receipt |-> <<c>>]
    BY <1>3, SuccessParts
  <2>1. /\ r.failure = <<>> /\ r.diagnostic = 0 /\ r.payload = <<p>>
        /\ r.artifact = <<a>> /\ r.receipt = <<c>>
    <3> HIDE DEF c, x
    <3> QED BY <2>0
  <2>2. c.digest = a.digest /\ c.entries = Len(p)
    OBVIOUS
  <2> HIDE DEF c
  <2>3. ToSet(r.payload) = {p} /\ ToSet(r.artifact) = {a} /\ ToSet(r.receipt) = {c}
    BY <2>1, SingleIsOptional
  <2>4. ReceiptIsBound(r)
    BY <2>2, <2>3 DEF ReceiptIsBound
  <2>5. Some(r.payload) /\ Some(r.artifact) /\ Some(r.receipt) /\ ~Some(r.failure)
    BY <2>1 DEF Some
  <2> QED BY <1>3, <2>1, <2>4, <2>5 DEF Valid, Accomplished
<1>4. QED
  BY <1>1, <1>2, <1>3 DEF Returnable

\* What the executor returns, part by part.
LEMMA ReturnableShape ==
  ASSUME NEW r, Returnable(r)
  PROVE  /\ r = [build |-> r.build, execution |-> r.execution,
                 failure |-> r.failure, diagnostic |-> r.diagnostic,
                 payload |-> r.payload, artifact |-> r.artifact,
                 receipt |-> r.receipt]
         /\ Optional(r.payload)
         /\ \A p \in ToSet(r.payload) :
                \A j, k \in DOMAIN p : j < k => p[j].path < p[k].path
         /\ \A c \in ToSet(r.receipt) : c.intact
<1> DEFINE b == r.build
           x == r.execution
           d == r.diagnostic
<1>1. CASE r = FailedExecution(b, x)
  <2>1. r = [build |-> b, execution |-> x, failure |-> <<>>,
             diagnostic |-> x.diagnostic, payload |-> <<>>, artifact |-> <<>>,
             receipt |-> <<>>]
    BY <1>1 DEF FailedExecution
  <2> HIDE DEF b, x, d
  <2>2. /\ r.build = b /\ r.execution = x /\ r.failure = <<>>
        /\ r.diagnostic = x.diagnostic /\ r.payload = <<>>
        /\ r.artifact = <<>> /\ r.receipt = <<>>
    BY <2>1
  <2> QED BY <2>1, <2>2, NoneIsOptional
<1>2. ASSUME NEW kind, r = FailedSealing(b, x, kind, d)
      PROVE  /\ r = [build |-> r.build, execution |-> r.execution,
                     failure |-> r.failure, diagnostic |-> r.diagnostic,
                     payload |-> r.payload, artifact |-> r.artifact,
                     receipt |-> r.receipt]
             /\ r.payload = <<>> /\ r.receipt = <<>>
  <2>1. r = [build |-> b, execution |-> x, failure |-> <<kind>>,
             diagnostic |-> d, payload |-> <<>>, artifact |-> <<>>,
             receipt |-> <<>>]
    BY <1>2, SealingParts
  <2> HIDE DEF b, x, d
  <2>2. /\ r.build = b /\ r.execution = x /\ r.failure = <<kind>>
        /\ r.diagnostic = d /\ r.payload = <<>>
        /\ r.artifact = <<>> /\ r.receipt = <<>>
    BY <2>1
  <2> QED BY <2>1, <2>2
<1>3. ASSUME NEW p, NEW a, r = Succeeded(b, x, p, a)
      PROVE  /\ r = [build |-> r.build, execution |-> r.execution,
                     failure |-> r.failure, diagnostic |-> r.diagnostic,
                     payload |-> r.payload, artifact |-> r.artifact,
                     receipt |-> r.receipt]
             /\ r.payload = <<p>> /\ Optional(r.payload)
             /\ \A c \in ToSet(r.receipt) : c.intact
  <2> DEFINE c == [digest |-> a.digest, entries |-> Len(p), intact |-> TRUE]
  <2>1. r = [build |-> b, execution |-> x, failure |-> <<>>, diagnostic |-> 0,
             payload |-> <<p>>, artifact |-> <<a>>, receipt |-> <<c>>]
    BY <1>3, SuccessParts
  <2>2. c.intact
    OBVIOUS
  <2> HIDE DEF b, x, d, c
  <2>3. /\ r.build = b /\ r.execution = x /\ r.failure = <<>>
        /\ r.diagnostic = 0 /\ r.payload = <<p>>
        /\ r.artifact = <<a>> /\ r.receipt = <<c>>
    BY <2>1
  <2>4. r = [build |-> r.build, execution |-> r.execution,
             failure |-> r.failure, diagnostic |-> r.diagnostic,
             payload |-> r.payload, artifact |-> r.artifact,
             receipt |-> r.receipt]
    BY <2>1, <2>3
  <2> QED BY <2>2, <2>3, <2>4, SingleIsOptional
<1>4. CASE \E kind : r = FailedSealing(b, x, kind, d)
  <2>1. PICK kind : r = FailedSealing(b, x, kind, d)
    BY <1>4
  <2> HIDE DEF b, x, d
  <2> QED BY <1>2, <2>1, NoneIsOptional
<1>5. CASE \E p \in ToSet(r.payload), a \in ToSet(r.artifact) :
            /\ r = Succeeded(b, x, p, a)
            /\ \A j, k \in DOMAIN p : j < k => p[j].path < p[k].path
  <2>1. PICK p \in ToSet(r.payload), a \in ToSet(r.artifact) :
            /\ r = Succeeded(b, x, p, a)
            /\ \A j, k \in DOMAIN p : j < k => p[j].path < p[k].path
    BY <1>5
  <2> HIDE DEF b, x, d
  <2>2. r.payload = <<p>> /\ Optional(r.payload)
    BY <1>3, <2>1
  <2>3. ToSet(r.payload) = {p}
    BY <2>2, SingleIsOptional
  <2> QED BY <1>3, <2>1, <2>2, <2>3
<1>6. QED
  BY <1>1, <1>4, <1>5 DEF Returnable

\* Reading back what was written gives the result again.
LEMMA RestoredIsSame ==
  ASSUME NEW r \in Results
  PROVE  Restored(Fields(r), Authority(r)) = r
<1> DEFINE f == Fields(r)
           a == Authority(r)
           m == [k \in DOMAIN r.payload |-> Manifest(r.payload[k])]
<1>1. /\ Returnable(r)
      /\ \A p \in ToSet(r.payload) : IsPayload(p)
  BY ResultsAssumption
<1>2. /\ r = [build |-> r.build, execution |-> r.execution,
              failure |-> r.failure, diagnostic |-> r.diagnostic,
              payload |-> r.payload, artifact |-> r.artifact,
              receipt |-> r.receipt]
      /\ Optional(r.payload)
      /\ \A p \in ToSet(r.payload) :
            \A j, k \in DOMAIN p : j < k => p[j].path < p[k].path
  BY <1>1, ReturnableShape
<1>3. m = r.payload
  <2>1. CASE ~Some(r.payload)
    <3>1. r.payload = <<>> /\ DOMAIN <<>> = {}
      BY <2>1 DEF Some
    <3> QED BY <3>1
  <2>2. CASE Some(r.payload)
    <3> DEFINE p == r.payload[1]
    <3>1. r.payload = <<p>> /\ ToSet(r.payload) = {p}
      BY <1>2, <2>2, OptionalIsSingle
    <3>2. Manifest(p) = p
      BY <1>1, <1>2, <3>1, ManifestStays
    <3> HIDE DEF p
    <3>3. DOMAIN <<p>> = {1} /\ <<p>>[1] = p
      OBVIOUS
    <3>4. m = [k \in {1} |-> p]
      BY <3>1, <3>2, <3>3
    <3> QED BY <3>1, <3>4
  <2> QED BY <2>1, <2>2
<1>4. /\ f.embedded = <<r.execution>> /\ f.failure = r.failure
      /\ f.diagnostic = r.diagnostic /\ f.payload = r.payload
      /\ f.artifact = r.artifact /\ f.receipt = r.receipt
  BY FieldsParts
<1>5. a.build = r.build
  BY DEF Authority
<1>6. f.embedded[1] = r.execution
  BY <1>4
<1> HIDE DEF f, a, m
<1>7. Restored(f, a) = [build |-> r.build, execution |-> r.execution,
                        failure |-> r.failure, diagnostic |-> r.diagnostic,
                        payload |-> m, artifact |-> r.artifact,
                        receipt |-> r.receipt]
  BY <1>4, <1>5, <1>6 DEF Restored, m
<1>8. QED
  BY <1>2, <1>3, <1>7 DEF f, a

\* The reader accepts what the encoder wrote, but for texts too long for it.
LEMMA UntouchedIsReadable ==
  ASSUME NEW r \in Results, Keepable(r)
  PROVE  Readable(Fields(r)) <=> TextsFit(r)
<1> DEFINE f == Fields(r)
<1>1. /\ Returnable(r) /\ "unknown" \notin ToSet(r.failure)
      /\ \A a \in ToSet(r.artifact) : a.format = "package_tar"
      /\ \A p \in ToSet(r.payload) : IsPayload(p) /\ \A e \in ToSet(p) :
                e.type # "unknown" /\ (e.size = 0 \/ e.type = "regular")
  BY ResultsAssumption
<1>2. /\ \A p \in ToSet(r.payload) :
            \A j, k \in DOMAIN p : j < k => p[j].path < p[k].path
      /\ \A c \in ToSet(r.receipt) : c.intact
  BY <1>1, ReturnableShape
<1>3. /\ f.execution = r.execution /\ f.embedded = <<r.execution>>
      /\ f.outcome = IF Accomplished(r) THEN "succeeded" ELSE "failed"
      /\ f.failure = r.failure /\ f.diagnostic = r.diagnostic
      /\ f.payload = r.payload /\ f.artifact = r.artifact
      /\ f.receipt = r.receipt
  BY FieldsParts
<1>4. f.extent = "exact"
  BY DEF Fields
<1>5. ToSet(f.embedded) = {f.execution}
  BY <1>3, SingleIsOptional
<1>6. \A p \in ToSet(r.payload) : Sealable(p)
  BY <1>1, <1>2, ManifestStays
<1>7. /\ r.diagnostic <= MaxDiagnostic
      /\ \A p \in ToSet(r.payload) : Len(p) <= MaxEntries
  BY DEF Keepable
<1> HIDE DEF f
<1>8. TextsFit(r) => Readable(f)
  <2> HAVE TextsFit(r)
  <2>1. \A p \in ToSet(f.payload) :
            /\ Len(p) <= MaxEntries /\ Sealable(p)
            /\ \A e \in ToSet(p) : ReadableEntry(e)
    BY <1>1, <1>3, <1>6, <1>7 DEF TextsFit, ReadableEntry
  <2>2. f.outcome \in {"succeeded", "failed"}
    BY <1>3
  <2> QED BY <1>1, <1>2, <1>3, <1>4, <1>5, <1>7, <2>1, <2>2 DEF Readable
<1>9. Readable(f) => TextsFit(r)
  BY <1>3 DEF Readable, ReadableEntry, TextsFit
<1>10. QED
  BY <1>8, <1>9 DEF f

\* Whoever has its authority opens the untouched record of a result.
LEMMA UntouchedOpens ==
  ASSUME NEW r \in Results, Keepable(r)
  PROVE  Opens(Record(r), Authority(r)) <=> TextsFit(r)
<1> DEFINE x == Record(r)
           f == Fields(r)
           a == Authority(r)
<1>1. x.fields = f
  BY DEF Record
<1>2. Framed(x)
  BY KeptIsFramed
<1>3. /\ f.build = r.build /\ f.request = r.execution.request
      /\ f.backend = r.execution.backend
      /\ f.identity = BuildIdentity(r) /\ f.embedded = <<r.execution>>
      /\ f.outcome = IF Accomplished(r) THEN "succeeded" ELSE "failed"
  BY FieldsParts
<1>4. /\ a.build = r.build /\ a.request = r.execution.request
      /\ a.backend = r.execution.backend
  BY DEF Authority
<1>5. Presented(f, a)
  BY <1>3, <1>4, ResultsAssumption DEF Presented
<1>6. Some(f.embedded) /\ ToSet(f.embedded) = {r.execution}
  BY <1>3, SingleIsOptional DEF Some
<1>7. ~Foreign(f, a)
  BY <1>4, <1>6 DEF Foreign
<1>8. Restored(f, a) = r
  BY RestoredIsSame
<1>9. Valid(r) /\ Corresponds(f, r) /\ Canonical(x, r)
  <2>1. Accomplished(r) \in BOOLEAN
    BY DEF Accomplished
  <2> HIDE DEF f
  <2>2. (f.outcome = "succeeded") = Accomplished(r)
    BY <1>3, <2>1
  <2>3. Valid(r) /\ Canonical(x, r)
    BY DEF Keepable, Canonical
  <2> QED BY <1>3, <2>2, <2>3 DEF Corresponds
<1>10. Readable(f) <=> TextsFit(r)
  BY UntouchedIsReadable
<1>11. QED
  <2> HIDE DEF x, f, a
  <2>1. Opens(x, a) <=> Readable(f)
    BY <1>1, <1>2, <1>5, <1>6, <1>7, <1>8, <1>9 DEF Opens
  <2> QED BY <1>10, <2>1 DEF x, a

(***************************************************************************)
(* Every result within the limits is kept, and its untouched record is     *)
(* that result again for whoever has its authority, exactly when its texts *)
(* are as short as the decoder wants them ("Every shape must round-trip    *)
(* exactly", TESTING.md).                                                  *)
(***************************************************************************)
THEOREM RoundTripIsExact == Spec => []RoundTrip
<1>1. Codec => RoundTrip
  <2> SUFFICES ASSUME Codec, stage = "over", Fits(result)
               PROVE  /\ outcome # "inconsistent"
                      /\ record = Record(result) /\ presented = Authority(result)
                            => /\ (outcome = "restored") = TextsFit(result)
                               /\ TextsFit(result) =>
                                    Restored(record.fields, presented) = result
    BY DEF RoundTrip
  <2>1. result \in Results
    BY DEF Codec
  <2>2. Keepable(result)
    BY <2>1, ResultsAssumption, ReturnableIsValid DEF Fits, Keepable
  <2>3. outcome = Decode(record, presented)
    BY <2>2 DEF Codec
  <2>4. outcome # "inconsistent"
    BY <2>3 DEF Decode
  <2>5. ASSUME record = Record(result), presented = Authority(result)
        PROVE  /\ (outcome = "restored") = TextsFit(result)
               /\ Restored(record.fields, presented) = result
    <3>1. (outcome = "restored") <=> Opens(record, presented)
      <4>1. CASE Opens(record, presented)
        <5>1. /\ Presented(record.fields, presented)
              /\ ~Foreign(record.fields, presented)
          BY <4>1 DEF Opens
        <5> QED BY <2>3, <4>1, <5>1 DEF Decode
      <4>2. CASE ~Opens(record, presented)
        <5>1. outcome = "mismatch" \/ outcome = "corrupt"
          BY <2>3, <4>2 DEF Decode
        <5> QED BY <4>2, <5>1
      <4> QED BY <4>1, <4>2
    <3>2. Opens(record, presented) <=> TextsFit(result)
      BY <2>1, <2>2, <2>5, UntouchedOpens
    <3>3. TextsFit(result) \in BOOLEAN
      BY DEF TextsFit
    <3>4. record.fields = Fields(result)
      BY <2>5 DEF Record
    <3>5. Restored(record.fields, presented) = result
      BY <2>1, <2>5, <3>4, RestoredIsSame
    <3> QED BY <3>1, <3>2, <3>3, <3>5
  <2> QED BY <2>4, <2>5
<1>2. QED
  BY <1>1, CodecAlways, PTL
=============================================================================
