------------------------- MODULE DocumentExpiryProofs -------------------------
(***************************************************************************)
(* Theorems about DocumentExpiry and the payload functions it uses, for    *)
(* any documents, vehicles, drivers and values, any number of ticks in a   *)
(* day and any stretch of time.                                            *)
(***************************************************************************)
EXTENDS DocumentExpiry, TLAPS

(***************************************************************************)
(* Days and dates.                                                         *)
(***************************************************************************)
\* The start of a day is an instant of that day.
LEMMA DayTyped ==
    ASSUME NEW t \in Time
    PROVE  /\ Day(t) \in Time
           /\ Day(Day(t)) = Day(t)
           /\ [form |-> "date", at |-> Day(t)] \in Dates
<1> USE DayAssumption DEF Time, Day
<1>1. t \in Nat /\ t % TicksPerDay \in 0 .. TicksPerDay - 1 /\ t % TicksPerDay <= t
  OBVIOUS
<1>2. Day(t) \in Time
  BY <1>1
<1>3. (t - (t % TicksPerDay)) % TicksPerDay = 0
  <2> DEFINE q == t \div TicksPerDay
             d == t - (t % TicksPerDay)
             k == d \div TicksPerDay
  <2>1. /\ q \in Nat /\ k \in Nat /\ d \in Nat
        /\ t = TicksPerDay * q + (t % TicksPerDay)
        /\ d = TicksPerDay * k + (d % TicksPerDay)
        /\ d % TicksPerDay \in 0 .. TicksPerDay - 1
    BY <1>1
  <2>2. TicksPerDay * (q - k) = d % TicksPerDay
    BY <1>1, <2>1
  <2>3. q - k = 0
    <3> DEFINE m == q - k
               r == d % TicksPerDay
    <3>1. /\ m \in Int /\ r \in 0 .. TicksPerDay - 1
          /\ TicksPerDay * m = r
      BY <2>1, <2>2
    <3> HIDE DEF q, k, d, m, r
    <3>2. ASSUME m > 0
          PROVE  FALSE
      <4>1. TicksPerDay * m >= TicksPerDay
        BY <3>1, <3>2
      <4>2. QED
        BY <3>1, <4>1
    <3>3. ASSUME m < 0
          PROVE  FALSE
      <4>1. TicksPerDay * m <= -TicksPerDay
        BY <3>1, <3>3
      <4>2. QED
        BY <3>1, <4>1
    <3>4. QED
      BY <3>1, <3>2, <3>3 DEF m
  <2>4. QED
    BY <2>2, <2>3
<1>4. Day(Day(t)) = Day(t)
  <2>1. Day(t) % TicksPerDay = 0
    BY <1>3
  <2>2. Day(Day(t)) = Day(t) - (Day(t) % TicksPerDay)
    BY Zenon
  <2>3. QED
    BY <1>2, <2>1, <2>2
<1>5. QED
  BY <1>2, <1>4 DEF Dates

\* Null is not an instant.
LEMMA NullNoTime == Null \notin Time
  BY NullAssumption DEF Time

\* What is written becomes what a column holds, and the other way round.
LEMMA ColumnTyped ==
    ASSUME NEW f, NEW w \in Written(f)
    PROVE  ToColumn(f, w) \in Stored(f) /\ ToColumn(f, w) = Named(f, w)
<1>1. CASE f \in DateFields
  BY <1>1 DEF Written, Stored, ToColumn, Named, toPrismaDateTime, Dates, DateTimes
<1>2. CASE f \notin DateFields
  BY <1>2 DEF Written, Stored, ToColumn, Named
<1>3. QED
  BY <1>1, <1>2

\* The reference of what a document column holds is one that a payload holds,
\* and is its own reference.
LEMMA ReferenceTyped ==
    ASSUME NEW x \in Stored("document")
    PROVE  /\ pickMediaRef(x) \in Written("document")
           /\ pickMediaRef(pickMediaRef(x)) = pickMediaRef(x)
<1>1. "document" \notin DateFields
  BY DEF DateFields
<1>2. x \in {Null} \cup Media \cup Legacy
  BY <1>1 DEF Stored
<1>3. pickMediaRef(x) \in {Null} \cup Media
  BY <1>2, LegacyAssumption DEF pickMediaRef
<1>4. \A y \in {Null} \cup Media : y \notin Legacy
  BY NullAssumption, LegacyAssumption
<1>5. pickMediaRef(pickMediaRef(x)) = pickMediaRef(x)
  BY <1>3, <1>4 DEF pickMediaRef
<1>6. QED
  BY <1>1, <1>3, <1>5 DEF Written

\* What a payload holds of a document is a reference already.
LEMMA WrittenReference ==
    ASSUME NEW x \in Written("document")
    PROVE  pickMediaRef(x) = x
<1>1. x \in {Null} \cup Media
  BY DEF Written, DateFields
<1>2. QED
  BY <1>1, NullAssumption, LegacyAssumption DEF pickMediaRef

\* What each column becomes in a payload.
LEMMA ToPayloadIs ==
    ASSUME NEW f, NEW x
    PROVE  /\ f \in DateFields => ToPayload(f, x) = toPayloadDateString(x)
           /\ f = "document" => f \notin DateFields /\ ToPayload(f, x) = pickMediaRef(x)
           /\ f \notin DateFields /\ f # "document" => ToPayload(f, x) = x
<1>1. \A g \in DateFields : g # "document"
  BY DEF DateFields
<1>2. CASE f \in DateFields
  <2>1. f # "document"
    BY <1>1, <1>2
  <2>2. QED
    BY <1>2, <2>1 DEF ToPayload
<1>3. CASE f \notin DateFields
  BY <1>3 DEF ToPayload
<1>4. QED
  BY <1>1, <1>2, <1>3

LEMMA PayloadTyped ==
    ASSUME NEW f, NEW x \in Stored(f)
    PROVE  ToPayload(f, x) \in Written(f)
<1>1. CASE f \in DateFields
  <2>1. ToPayload(f, x) = toPayloadDateString(x)
    BY <1>1, ToPayloadIs
  <2>2. QED
    BY <1>1, <2>1, DayTyped DEF Written, Stored, toPayloadDateString
<1>2. CASE f = "document"
  <2>1. ToPayload(f, x) = pickMediaRef(x)
    BY <1>2, ToPayloadIs
  <2>2. QED
    BY <1>2, <2>1, ReferenceTyped
<1>3. CASE f \notin DateFields /\ f # "document"
  <2>1. ToPayload(f, x) = x
    BY <1>3, ToPayloadIs
  <2>2. QED
    BY <1>3, <2>1 DEF Written, Stored
<1>4. QED
  BY <1>1, <1>2, <1>3

\* Writing back what a payload shows of a column keeps the column's day, or
\* its reference.
LEMMA ThereAndBack ==
    ASSUME NEW f, NEW x \in Stored(f)
    PROVE  Content(f, ToColumn(f, ToPayload(f, x))) = Content(f, x)
<1>1. CASE f \in DateFields /\ x # Null
  <2> DEFINE date == [form |-> "date", at |-> Day(x)]
  <2>1. x \in Time
    BY <1>1 DEF Stored
  <2>2. ToPayload(f, x) = date
    BY <1>1, ToPayloadIs DEF toPayloadDateString
  <2>3. date # Null
    BY <2>1, DayTyped, NullIsNoDate
  <2>4. ToColumn(f, date) = Day(x)
    BY <1>1, <2>3 DEF ToColumn, toPrismaDateTime
  <2>5. Day(x) # Null /\ Day(Day(x)) = Day(x)
    BY <2>1, DayTyped, NullNoTime
  <2>6. QED
    BY <1>1, <2>2, <2>4, <2>5 DEF Content
<1>2. CASE f \in DateFields /\ x = Null
  BY <1>2, ToPayloadIs DEF Content, ToColumn, toPrismaDateTime, toPayloadDateString
<1>3. CASE f = "document"
  <2>1. f \notin DateFields
    BY <1>3, ToPayloadIs
  <2>2. ToColumn(f, ToPayload(f, x)) = pickMediaRef(x)
    BY <1>3, <2>1, ToPayloadIs DEF ToColumn
  <2>3. QED
    BY <1>3, <2>1, <2>2, ReferenceTyped DEF Content
<1>4. CASE f \notin DateFields /\ f # "document"
  BY <1>4, ToPayloadIs DEF Content, ToColumn
<1>5. QED
  BY <1>1, <1>2, <1>3, <1>4

(***************************************************************************)
(* Values of fields.                                                       *)
(***************************************************************************)
\* Being a value for the columns, or for the payload, of some fields.
LEMMA StoredValues ==
    ASSUME NEW fields, NEW x
    PROVE  x \in Values(fields, Stored)
             <=> /\ x = [f \in fields |-> x[f]]
                 /\ \A f \in fields : x[f] \in Stored(f)
  BY DEF Values

LEMMA WrittenValues ==
    ASSUME NEW fields, NEW x
    PROVE  x \in Values(fields, Written)
             <=> /\ x = [f \in fields |-> x[f]]
                 /\ \A f \in fields : x[f] \in Written(f)
  BY DEF Values

\* What a client sends names fields of the kind and holds what may be written.
LEMMA DtoTyped ==
    ASSUME NEW kind \in Kinds, NEW dto \in Dtos[kind]
    PROVE  /\ DOMAIN dto \subseteq Fields(kind)
           /\ \A f \in DOMAIN dto : dto[f] \in Written(f)
           /\ DOMAIN Columns(dto) = DOMAIN dto
           /\ \A f \in DOMAIN dto : Columns(dto)[f] = Named(f, dto[f])
           /\ \A f \in DOMAIN dto : Columns(dto)[f] \in Stored(f)
<1>1. \A f : Offered(f) \subseteq Written(f)
  BY OffersAssumption DEF Offered, Written
<1>2. PICK S \in SUBSET Fields(kind) :
        /\ dto \in [S -> UNION {Offered(f) : f \in S}]
        /\ \A f \in S : dto[f] \in Offered(f)
  BY DEF Dtos
<1>3. DOMAIN dto = S
  BY <1>2
<1>4. \A f \in DOMAIN dto : dto[f] \in Written(f)
  BY <1>1, <1>2, <1>3
<1>5. DOMAIN Columns(dto) = DOMAIN dto
      /\ \A f \in DOMAIN dto : Columns(dto)[f] = ToColumn(f, dto[f])
  BY DEF Columns
<1>6. QED
  BY <1>2, <1>3, <1>4, <1>5, ColumnTyped

\* A partial update keeps values typed.
LEMMA OverwriteTyped ==
    ASSUME NEW fields, NEW data \in Values(fields, Stored), NEW update,
           \A f \in fields \cap DOMAIN update : update[f] \in Stored(f)
    PROVE  /\ Overwrite(data, update) \in Values(fields, Stored)
           /\ \A f \in fields : Overwrite(data, update)[f]
                 = IF f \in DOMAIN update THEN update[f] ELSE data[f]
<1> DEFINE new == Overwrite(data, update)
<1>1. DOMAIN data = fields /\ \A f \in fields : data[f] \in Stored(f)
  BY DEF Values
<1>2. new = [f \in fields |-> IF f \in DOMAIN update THEN update[f] ELSE data[f]]
  BY <1>1 DEF Overwrite
<1>3. \A f \in fields : new[f] \in Stored(f)
  BY <1>1, <1>2
<1>4. new = [f \in fields |-> new[f]]
  BY <1>2
<1>5. new \in Values(fields, Stored)
  BY <1>3, <1>4, StoredValues
<1>6. QED
  BY <1>2, <1>5

\* The functions of each kind are one function of its fields.
LEMMA ProposeIsUniform ==
    ASSUME NEW kind \in Kinds, NEW data, NEW dto
    PROVE  ProposeFor(kind, data, dto) = Propose(Fields(kind), data, dto)
  BY DEF Kinds, ProposeFor, Fields, ProposeInspection, ProposeInsurance,
         ProposePcoDocument, ProposeDocumentOnly

LEMMA ApplyIsUniform ==
    ASSUME NEW kind \in Kinds, NEW data, NEW payload
    PROVE  applyAcceptedPayload(kind, payload, data)
             = Overwrite(data, Update(Fields(kind), payload))
  BY DEF Kinds, applyAcceptedPayload, Fields, UpdateInspection, UpdateInsurance,
         UpdatePcoDocument, UpdateDocumentOnly

\* A payload has all fields, what was sent and what was not.
LEMMA BuildIs ==
    ASSUME NEW fields, NEW data, NEW dto
    PROVE  \A f \in fields : Build(fields, data, dto)[f]
              = IF f \in DOMAIN dto THEN dto[f] ELSE ToPayload(f, data[f])
  BY DEF Build

LEMMA BuildTyped ==
    ASSUME NEW fields, NEW data \in Values(fields, Stored), NEW dto,
           \A f \in fields \cap DOMAIN dto : dto[f] \in Written(f)
    PROVE  Build(fields, data, dto) \in Values(fields, Written)
<1> DEFINE new == Build(fields, data, dto)
<1>1. \A f \in fields : data[f] \in Stored(f)
  BY StoredValues
<1>2. new = [f \in fields |-> IF f \in DOMAIN dto THEN dto[f] ELSE ToPayload(f, data[f])]
  BY DEF Build
<1>3. \A f \in fields : new[f] \in Written(f)
  BY <1>1, <1>2, PayloadTyped
<1>4. new = [f \in fields |-> new[f]]
  BY <1>2
<1>5. QED
  BY <1>3, <1>4, WrittenValues

\* The payload of the row alone.
LEMMA CurrentTyped ==
    ASSUME NEW fields, NEW data \in Values(fields, Stored)
    PROVE  /\ Current(fields, data) \in Values(fields, Written)
           /\ \A f \in fields : Current(fields, data)[f] = ToPayload(f, data[f])
<1>1. DOMAIN <<>> = {}
  OBVIOUS
<1>2. \A f \in fields \cap DOMAIN <<>> : <<>>[f] \in Written(f)
  BY <1>1
<1>3. Build(fields, data, <<>>) \in Values(fields, Written)
  BY <1>2, BuildTyped
<1>4. \A f \in fields : Build(fields, data, <<>>)[f]
         = IF f \in DOMAIN <<>> THEN <<>>[f] ELSE ToPayload(f, data[f])
  BY BuildIs
<1>5. QED
  BY <1>1, <1>3, <1>4 DEF Current

\* A proposal is a payload of its kind, and its list of changed fields has
\* what was sent with another value than the payload of the row.
LEMMA ProposeTyped ==
    ASSUME NEW kind \in Kinds, NEW data \in Values(Fields(kind), Stored),
           NEW dto \in Dtos[kind]
    PROVE  /\ ProposeFor(kind, data, dto) \in Payload(kind)
           /\ ProposeFor(kind, data, dto).data = Build(Fields(kind), data, dto)
           /\ ProposeFor(kind, data, dto).changed
                = {f \in DOMAIN dto : dto[f] # ToPayload(f, data[f])}
<1> DEFINE changed == {f \in DOMAIN dto : dto[f] # ToPayload(f, data[f])}
<1>1. DOMAIN dto \subseteq Fields(kind)
  BY DtoTyped
<1>2. Build(Fields(kind), data, dto) \in Values(Fields(kind), Written)
  BY DtoTyped, BuildTyped
<1>3. Changed(Fields(kind), data, dto) = changed
  BY <1>1, CurrentTyped DEF Changed
<1>4. ProposeFor(kind, data, dto)
        = [data |-> Build(Fields(kind), data, dto), changed |-> changed]
  BY <1>3, ProposeIsUniform DEF Propose
<1>5. changed \in SUBSET Fields(kind)
  BY <1>1
<1>6. QED
  BY <1>2, <1>4, <1>5 DEF Payload

\* What an accepted payload writes: the columns of the fields that its list
\* names, of all fields if it names none.
LEMMA ApplyTyped ==
    ASSUME NEW kind \in Kinds, NEW data \in Values(Fields(kind), Stored),
           NEW payload \in Payload(kind)
    PROVE  LET listed == parseStoredChangedFields(Fields(kind), payload)
           IN /\ applyAcceptedPayload(kind, payload, data) \in Values(Fields(kind), Stored)
              /\ \A f \in Fields(kind) :
                    /\ payload.data[f] \in Written(f)
                    /\ applyAcceptedPayload(kind, payload, data)[f]
                         = IF listed = {} \/ f \in listed
                           THEN Named(f, payload.data[f]) ELSE data[f]
<1> DEFINE fields == Fields(kind)
           listed == parseStoredChangedFields(fields, payload)
           written == IF listed = {} THEN fields ELSE listed
           update == Update(fields, payload)
<1>1. payload.data \in Values(fields, Written)
  BY DEF Payload
<1>2. \A f \in fields : payload.data[f] \in Written(f)
  BY <1>1, WrittenValues
<1>3. update = [f \in written |-> ToColumn(f, payload.data[f])]
  BY DEF Update
<1>4. listed \subseteq fields
  BY DEF parseStoredChangedFields
<1>5. DOMAIN update = written /\ written \subseteq fields
      /\ \A f \in fields : f \in written <=> listed = {} \/ f \in listed
  BY <1>3, <1>4
<1>6. \A f \in written : update[f] = Named(f, payload.data[f])
                         /\ update[f] \in Stored(f)
  BY <1>2, <1>3, <1>5, ColumnTyped
<1> HIDE DEF listed, update
<1>7. /\ Overwrite(data, update) \in Values(fields, Stored)
      /\ \A f \in fields : Overwrite(data, update)[f]
            = IF f \in DOMAIN update THEN update[f] ELSE data[f]
  BY <1>5, <1>6, OverwriteTyped
<1>8. applyAcceptedPayload(kind, payload, data) = Overwrite(data, update)
  BY ApplyIsUniform DEF update
<1>9. QED
  BY <1>2, <1>5, <1>6, <1>7, <1>8 DEF listed

(***************************************************************************)
(* Type correctness.                                                       *)
(***************************************************************************)
\* What a row that exists holds.
LEMMA RowParts ==
    ASSUME NEW row
    PROVE  row \in Row <=> /\ row.kind \in Kinds
                           /\ row \in Rows(row.kind)
<1>1. ASSUME row \in Row
      PROVE  row.kind \in Kinds /\ row \in Rows(row.kind)
  <2>1. PICK kind \in Kinds : row \in Rows(kind)
    BY <1>1 DEF Row
  <2>2. row.kind = kind
    BY <2>1 DEF Rows
  <2>3. QED
    BY <2>1, <2>2
<1>2. QED
  BY <1>1 DEF Row

\* A document's row.
LEMMA RowTyped ==
    ASSUME TypeOK, NEW d \in Docs, docs[d] # Null
    PROVE  /\ docs[d] \in Row
           /\ docs[d].kind \in Kinds
           /\ docs[d].vehicle \in Vehicles
           /\ docs[d].status \in DocumentStatus \cup {"DELETED"}
           /\ docs[d].data \in Values(Fields(docs[d].kind), Stored)
           /\ DOMAIN docs[d].data = Fields(docs[d].kind)
<1>1. docs[d] \in Row
  BY DEF TypeOK
<1>2. docs[d].kind \in Kinds /\ docs[d] \in Rows(docs[d].kind)
  BY <1>1, RowParts
<1>3. docs[d].data \in Values(Fields(docs[d].kind), Stored)
  BY <1>2 DEF Rows
<1>4. DOMAIN docs[d].data = Fields(docs[d].kind)
  BY <1>3 DEF Values
<1>5. QED
  BY <1>1, <1>2, <1>3, <1>4 DEF Rows

\* Replacing the row of a document.
LEMMA PutTyped ==
    ASSUME TypeOK, NEW d \in Docs, NEW row \in Row, Put(d, row),
           docs[d] # Null => row.kind = docs[d].kind
    PROVE  /\ docs' \in [Docs -> Row \cup {Null}]
           /\ docs'[d] = row
           /\ \A e \in Docs : docs[e] # Null
                 => docs'[e] # Null /\ docs'[e].kind = docs[e].kind
<1>1. docs' = [docs EXCEPT ![d] = row] /\ docs \in [Docs -> Row \cup {Null}]
  BY DEF Put, TypeOK
<1>2. row # Null
  BY InitialAssumption
<1>3. QED
  BY <1>1, <1>2

\* Each write of a row, and that rows keep their kind.
KindsKept ==
    /\ docs' \in [Docs -> Row \cup {Null}]
    /\ \A e \in Docs : docs[e] # Null => docs'[e] # Null /\ docs'[e].kind = docs[e].kind

LEMMA CreateKeepsKinds ==
    ASSUME TypeOK, NEW d \in Docs, NEW v \in Vehicles, NEW kind \in Kinds,
           NEW dto \in Dtos[kind], NEW status \in DocumentStatus,
           Create(d, v, kind, dto, status)
    PROVE  KindsKept
<1> DEFINE empty == [f \in Fields(kind) |-> Null]
           row == [kind |-> kind, vehicle |-> v, status |-> status,
                   data |-> Overwrite(empty, Columns(dto))]
<1>1. empty \in Values(Fields(kind), Stored)
  BY DEF Values, Stored
<1>2. Overwrite(empty, Columns(dto)) \in Values(Fields(kind), Stored)
  BY <1>1, DtoTyped, OverwriteTyped
<1>3. row \in Row
  BY <1>2 DEF Row, Rows
<1>4. docs[d] = Null /\ Put(d, row)
  BY DEF Create
<1>5. QED
  BY <1>3, <1>4, PutTyped DEF KindsKept

\* Handlers that write fields or the status of a row.
LEMMA RewriteKeepsKinds ==
    ASSUME TypeOK, NEW d \in Docs, docs[d] # Null,
           NEW data \in Values(Fields(docs[d].kind), Stored),
           NEW status \in DocumentStatus \cup {"DELETED"},
           Put(d, [docs[d] EXCEPT !.data = data, !.status = status])
    PROVE  KindsKept /\ docs'[d].data = data
<1> DEFINE row == [docs[d] EXCEPT !.data = data, !.status = status]
<1>1. docs[d] \in Rows(docs[d].kind) /\ docs[d].kind \in Kinds
  BY RowTyped, RowParts
<1>2. row \in Rows(docs[d].kind) /\ row.kind = docs[d].kind /\ row.data = data
  BY <1>1 DEF Rows
<1>3. row \in Row
  BY <1>1, <1>2 DEF Row
<1>4. QED
  BY <1>2, <1>3, PutTyped DEF KindsKept

LEMMA UpdateKeepsKinds ==
    ASSUME TypeOK, NEW d \in Docs, Exists(d), NEW dto \in Dtos[docs[d].kind],
           NEW status \in DocumentStatus,
           UpdateByDriver(d, dto) \/ UpdateByAdmin(d, dto, status)
    PROVE  KindsKept
<1> DEFINE data == Overwrite(docs[d].data, Columns(dto))
<1>1. docs[d] # Null /\ docs[d].kind \in Kinds
      /\ docs[d].data \in Values(Fields(docs[d].kind), Stored)
  BY RowTyped DEF Exists
<1>2. data \in Values(Fields(docs[d].kind), Stored)
  BY <1>1, DtoTyped, OverwriteTyped
<1>3. \E s \in DocumentStatus :
         Put(d, [docs[d] EXCEPT !.data = data, !.status = s])
  BY DEF UpdateByDriver, UpdateByAdmin, DocumentStatus
<1>4. QED
  BY <1>1, <1>2, <1>3, RewriteKeepsKinds

\* Accepting applies the payload to the fields that the row has by then.
LEMMA AcceptWrites ==
    ASSUME TypeOK, NEW d \in Docs, Accept(d)
    PROVE  /\ KindsKept
           /\ docs[d] # Null /\ docs[d].kind \in Kinds
           /\ requests[d] \in Payload(docs[d].kind)
           /\ docs'[d].data = applyAcceptedPayload(docs[d].kind, requests[d], docs[d].data)
<1> DEFINE data == applyAcceptedPayload(docs[d].kind, requests[d], docs[d].data)
<1>1. docs[d] # Null /\ requests[d] \in Payload(docs[d].kind)
  BY DEF Accept, TypeOK
<1>2. docs[d] \in Rows(docs[d].kind) /\ docs[d].kind \in Kinds
      /\ docs[d].data \in Values(Fields(docs[d].kind), Stored)
  BY <1>1, RowTyped, RowParts
<1>3. data \in Values(Fields(docs[d].kind), Stored)
  BY <1>1, <1>2, ApplyTyped
<1> DEFINE row == [docs[d] EXCEPT !.data = data]
<1>4. row \in Rows(docs[d].kind) /\ row.kind = docs[d].kind /\ row.data = data
  BY <1>2, <1>3 DEF Rows
<1>5. row \in Row
  BY <1>2, <1>4 DEF Row
<1>6. Put(d, row)
  BY DEF Accept
<1>7. QED
  BY <1>1, <1>2, <1>4, <1>5, <1>6, PutTyped DEF KindsKept

LEMMA DeleteKeepsKinds ==
    ASSUME TypeOK, NEW d \in Docs, Delete(d)
    PROVE  KindsKept
<1> DEFINE row == [docs[d] EXCEPT !.status = "DELETED"]
<1>1. docs[d] # Null
  BY DEF Delete, Exists
<1>2. docs[d] \in Rows(docs[d].kind) /\ docs[d].kind \in Kinds
  BY <1>1, RowTyped, RowParts
<1>3. row \in Rows(docs[d].kind) /\ row.kind = docs[d].kind
  BY <1>2 DEF Rows
<1>4. row \in Row /\ row # Null
  BY <1>2, <1>3, InitialAssumption DEF Row
<1>5. docs' = [docs EXCEPT ![d] = row] /\ docs \in [Docs -> Row \cup {Null}]
  BY DEF Delete, TypeOK
<1>6. QED
  BY <1>3, <1>4, <1>5 DEF KindsKept

LEMMA SameDocsKeepKinds ==
    ASSUME TypeOK, docs' = docs
    PROVE  KindsKept
  BY DEF TypeOK, KindsKept

\* The rows after any step, and the requests and the history: a submission,
\* the end of one request, or no change.
Submission(d, dto) ==
    /\ docs[d] # Null
    /\ docs' = docs
    /\ requests' = [requests EXCEPT ![d] =
                       ProposeFor(docs[d].kind, docs[d].data, dto)]
    /\ ProposeFor(docs[d].kind, docs[d].data, dto).changed # {}
    /\ sent' = [sent EXCEPT ![d] = [dto |-> dto, about |-> docs[d].data]]

LEMMA StepKinds ==
    ASSUME TypeOK, [Next]_vars
    PROVE  /\ KindsKept
           /\ archived' \subseteq Vehicles /\ optional' \subseteq Vehicles
           /\ now' \in Time /\ events' \in 0..MaxEvents
           /\ \/ UNCHANGED <<requests, sent>>
              \/ \E d \in Docs : \E dto \in Dtos[docs[d].kind] : Submission(d, dto)
              \/ \E d \in Docs : /\ requests' = [requests EXCEPT ![d] = Null]
                                 /\ sent' = [sent EXCEPT ![d] = Null]
<1> DEFINE Rest == /\ archived' \subseteq Vehicles /\ optional' \subseteq Vehicles
                   /\ now' \in Time /\ events' \in 0..MaxEvents
<1>0. /\ archived \subseteq Vehicles /\ optional \subseteq Vehicles
      /\ now \in Time /\ events \in 0..MaxEvents
  BY DEF TypeOK
<1>1. ASSUME NEW d \in Docs, NEW v \in Vehicles, NEW k \in Kinds,
             NEW s \in DocumentStatus, NEW dto \in Dtos[k],
             Create(d, v, k, dto, s)
      PROVE  /\ KindsKept
             /\ UNCHANGED <<requests, sent, archived, optional, now>>
  BY <1>1, CreateKeepsKinds DEF Create
<1>2. ASSUME NEW d \in Docs, Exists(d), NEW dto \in Dtos[docs[d].kind],
             NEW s \in DocumentStatus,
             UpdateByDriver(d, dto) \/ UpdateByAdmin(d, dto, s)
      PROVE  /\ KindsKept
             /\ UNCHANGED <<requests, sent, archived, optional, now>>
  BY <1>2, UpdateKeepsKinds DEF UpdateByDriver, UpdateByAdmin
<1>3. ASSUME NEW d \in Docs, Exists(d), NEW dto \in Dtos[docs[d].kind],
             Submit(d, dto)
      PROVE  /\ KindsKept /\ Submission(d, dto)
             /\ UNCHANGED <<archived, optional, now>>
  BY <1>3, SameDocsKeepKinds DEF Submit, Submission, Exists
<1>4. ASSUME NEW d \in Docs, Delete(d)
      PROVE  /\ KindsKept
             /\ UNCHANGED <<requests, sent, archived, optional, now>>
  BY <1>4, DeleteKeepsKinds DEF Delete
<1>5. ASSUME NEW d \in Docs, Accept(d) \/ Refuse(d)
      PROVE  /\ KindsKept
             /\ requests' = [requests EXCEPT ![d] = Null]
             /\ sent' = [sent EXCEPT ![d] = Null]
             /\ UNCHANGED <<archived, optional, now>>
  BY <1>5, AcceptWrites, SameDocsKeepKinds DEF Accept, Refuse, Close
<1>6. ASSUME NEW p \in Drivers, Archive(p) \/ Restore(p)
      PROVE  /\ KindsKept
             /\ archived' \subseteq Vehicles
             /\ UNCHANGED <<requests, sent, optional, now>>
  BY <1>0, <1>6, SameDocsKeepKinds DEF Archive, Restore
<1>7. ASSUME NEW v \in Vehicles, NEW b \in BOOLEAN,
             adminRequestOptionalDocuments(v, b)
      PROVE  /\ KindsKept
             /\ optional' \subseteq Vehicles
             /\ UNCHANGED <<requests, sent, archived, now>>
  BY <1>0, <1>7, SameDocsKeepKinds DEF adminRequestOptionalDocuments
<1>8. CASE Call
  <2>1. events' \in 0..MaxEvents
    BY <1>0, <1>8, MaxAssumption DEF Call
  <2>2. CASE \E d \in Docs, v \in Vehicles, k \in Kinds :
                \E s \in DocumentStatus, dto \in Dtos[k] : Create(d, v, k, dto, s)
    BY <1>0, <1>1, <2>1, <2>2
  <2>3. CASE \E d \in {d \in Docs : Exists(d)} : \E dto \in Dtos[docs[d].kind] :
                \/ UpdateByDriver(d, dto)
                \/ \E s \in DocumentStatus : UpdateByAdmin(d, dto, s)
    <3>1. "PENDING" \in DocumentStatus
      BY DEF DocumentStatus
    <3>2. QED
      BY <1>0, <1>2, <2>1, <2>3, <3>1
  <2>4. CASE \E d \in {d \in Docs : Exists(d)} : \E dto \in Dtos[docs[d].kind] :
                Submit(d, dto)
    BY <1>0, <1>3, <2>1, <2>4
  <2>5. CASE \E d \in Docs : Delete(d)
    BY <1>0, <1>4, <2>1, <2>5
  <2>6. CASE \E p \in Drivers : Archive(p) \/ Restore(p)
    BY <1>0, <1>6, <2>1, <2>6
  <2>7. CASE \E v \in Vehicles, b \in BOOLEAN : adminRequestOptionalDocuments(v, b)
    BY <1>0, <1>7, <2>1, <2>7
  <2>8. QED
    BY <1>8, <2>2, <2>3, <2>4, <2>5, <2>6, <2>7 DEF Call
<1>9. CASE (\E d \in Docs : Accept(d) \/ Refuse(d)) /\ UNCHANGED events
  BY <1>0, <1>5, <1>9
<1>10. CASE Tick
  <2>1. now' \in Time
    BY <1>0, <1>10, DayAssumption DEF Tick, Time
  <2>2. QED
    BY <1>0, <1>10, <2>1, SameDocsKeepKinds DEF Tick
<1>11. CASE UNCHANGED vars
  BY <1>0, <1>11, SameDocsKeepKinds DEF vars
<1>12. QED
  BY <1>8, <1>9, <1>10, <1>11 DEF Next

\* Rows hold what the columns of their kind hold, and payloads what clients
\* and the code write: nothing that time, edits and acceptances do leaves
\* the types, for any length of a day.
THEOREM TypeCorrect == Spec => []TypeOK
<1>1. Init => TypeOK
  <2> SUFFICES ASSUME Init
               PROVE  TypeOK
    OBVIOUS
  <2>1. docs \in [Docs -> Row \cup {Null}]
    BY InitialAssumption DEF Init
  <2>2. ASSUME NEW d \in Docs, Exists(d), NEW q \in Earlier(docs[d])
        PROVE  q \in Payload(docs[d].kind)
    <3>1. docs[d] \in Row
      BY <2>1, <2>2 DEF Exists
    <3>2. docs[d].data \in Values(Fields(docs[d].kind), Stored)
      BY <3>1, RowParts DEF Rows
    <3>3. Current(Fields(docs[d].kind), docs[d].data)
            \in Values(Fields(docs[d].kind), Written)
      BY <3>2, CurrentTyped
    <3>4. QED
      BY <2>2, <3>3 DEF Earlier, Payload
  <2>3. /\ DOMAIN requests = Docs
        /\ \A d \in Docs : requests[d] # Null
              => Exists(d) /\ requests[d] \in Earlier(docs[d])
    BY DEF Init
  <2>4. ASSUME NEW d \in Docs, Waiting(d)
        PROVE  docs[d] # Null /\ requests[d] \in Payload(docs[d].kind)
    <3>1. Exists(d) /\ requests[d] \in Earlier(docs[d])
      BY <2>3, <2>4 DEF Waiting
    <3>2. QED
      BY <2>2, <3>1 DEF Exists
  <2>5. DOMAIN requests = Docs /\ DOMAIN sent = Docs
    BY <2>3 DEF Init
  <2>6. now \in Time /\ events \in 0..MaxEvents
    BY DayAssumption, MaxAssumption DEF Init, Time
  <2>7. archived = {} /\ optional = {}
    BY DEF Init
  <2>8. QED
    BY <2>1, <2>4, <2>5, <2>6, <2>7 DEF TypeOK
<1>2. TypeOK /\ [Next]_vars => TypeOK'
  <2> SUFFICES ASSUME TypeOK, [Next]_vars
               PROVE  TypeOK'
    OBVIOUS
  <2>1. KindsKept
    BY StepKinds
  <2>2. DOMAIN requests' = Docs /\ DOMAIN sent' = Docs
    BY StepKinds DEF TypeOK, Submission
  <2>3. ASSUME NEW e \in Docs, requests'[e] # Null
        PROVE  docs'[e] # Null /\ requests'[e] \in Payload(docs'[e].kind)
    <3>1. CASE requests'[e] = requests[e]
      <4>1. docs[e] # Null /\ requests[e] \in Payload(docs[e].kind)
        BY <2>3, <3>1 DEF TypeOK, Waiting
      <4>2. QED
        BY <2>1, <3>1, <4>1 DEF KindsKept
    <3>2. CASE requests'[e] # requests[e]
      <4>1. PICK dto \in Dtos[docs[e].kind] : Submission(e, dto)
        <5>1. \E d \in Docs : \E dto \in Dtos[docs[d].kind] : Submission(d, dto)
          BY <2>3, <3>2, StepKinds DEF TypeOK
        <5>2. QED
          BY <3>2, <5>1 DEF Submission, TypeOK
      <4>2. docs[e].kind \in Kinds /\ docs[e].data \in Values(Fields(docs[e].kind), Stored)
        BY <4>1, RowTyped DEF Submission
      <4>3. requests'[e] = ProposeFor(docs[e].kind, docs[e].data, dto)
        BY <4>1 DEF Submission, TypeOK
      <4>4. requests'[e] \in Payload(docs[e].kind)
        BY <4>2, <4>3, ProposeTyped
      <4>5. QED
        BY <4>1, <4>4 DEF Submission
    <3>3. QED
      BY <3>1, <3>2
  <2>4. /\ archived' \subseteq Vehicles /\ optional' \subseteq Vehicles
        /\ now' \in Time /\ events' \in 0..MaxEvents
    BY StepKinds
  <2>5. QED
    BY <2>1, <2>2, <2>3, <2>4 DEF TypeOK, Waiting, KindsKept
<1>3. QED
  BY <1>1, <1>2, PTL DEF Spec

(***************************************************************************)
(* The reads of expiry.                                                    *)
(***************************************************************************)
\* What counts as expired and what as expiring soon.
LEMMA BucketIs ==
    ASSUME NEW t \in Int, NEW r \in Int, NEW h \in Int
    PROVE  /\ classifyExpiryBucket(t, r, h) = "expired" <=> t < r
           /\ classifyExpiryBucket(t, r, h) = "expiringSoon"
                <=> t >= r /\ t <= r + Days(h)
<1>1. t >= r <=> ~(t < r)
  OBVIOUS
<1>2. CASE t < r
  <2>1. classifyExpiryBucket(t, r, h) = "expired"
    BY <1>1, <1>2, Zenon DEF classifyExpiryBucket
  <2>2. QED
    BY <1>1, <1>2, <2>1
<1>3. CASE t >= r /\ t <= r + Days(h)
  <2>1. classifyExpiryBucket(t, r, h) = "expiringSoon"
    BY <1>1, <1>3, Zenon DEF classifyExpiryBucket
  <2>2. QED
    BY <1>1, <1>3, <2>1
<1>4. CASE t >= r /\ ~(t <= r + Days(h))
  <2>1. classifyExpiryBucket(t, r, h) = Null
    BY <1>1, <1>4, Zenon DEF classifyExpiryBucket
  <2>2. QED
    BY <1>1, <1>4, <2>1, NullIsNoAnswer
<1>5. QED
  BY <1>1, <1>2, <1>3, <1>4

\* Each of the reads filters the relations of a vehicle by itself; these are
\* the documents that come through: dated, accepted, of a kind that expires.
LEMMA DatedIs ==
    ASSUME NEW v
    PROVE  Dated(v) = {d \in Docs : /\ Exists(d) /\ docs[d].vehicle = v
                                    /\ docs[d].kind \in ExpiringKinds
                                    /\ docs[d].status = "ACCEPTED"
                                    /\ Expiry(d) # Null}
<1>1. ASSUME NEW d \in Docs, docs[d].kind = "INSURANCE"
      PROVE  d \in Dated(v) <=> /\ Exists(d) /\ docs[d].vehicle = v
                                /\ docs[d].status = "ACCEPTED" /\ Expiry(d) # Null
  BY <1>1 DEF Dated, inspections, insurances, pcoDocs, RowsOf, Expiry
<1>2. ASSUME NEW d \in Docs, docs[d].kind \in {"INSPECTION", "PCO_DOCUMENT"}
      PROVE  d \in Dated(v) <=> /\ Exists(d) /\ docs[d].vehicle = v
                                /\ docs[d].status = "ACCEPTED" /\ Expiry(d) # Null
  BY <1>2 DEF Dated, inspections, insurances, pcoDocs, RowsOf, Expiry
<1>3. \A d \in Dated(v) : d \in Docs /\ docs[d].kind \in ExpiringKinds
  BY DEF Dated, inspections, insurances, pcoDocs, RowsOf, ExpiringKinds
<1>4. QED
  BY <1>1, <1>2, <1>3 DEF ExpiringKinds

\* A vehicle is in the admin's lists when it is live and has such a document
\* with its date in the range.
LEMMA ExpiredVehiclesAre ==
    ASSUME NEW v \in Vehicles, NEW r
    PROVE  v \in ExpiredVehicles(r)
             <=> Live(v) /\ \E d \in Dated(v) : Expiry(d) < r
<1>1. ASSUME NEW d \in inspections(v) \cup pcoDocs(v)
      PROVE  Expiry(d) = docs[d].data["expiryDate"]
  BY <1>1 DEF inspections, pcoDocs, RowsOf, Expiry
<1>2. ASSUME NEW d \in insurances(v)
      PROVE  Expiry(d) = docs[d].data["endDate"]
  BY <1>2 DEF insurances, RowsOf, Expiry
<1>3. QED
  BY <1>1, <1>2 DEF ExpiredVehicles, Dated, Before

LEMMA ExpiringVehiclesAre ==
    ASSUME NEW v \in Vehicles, NEW r, NEW horizon
    PROVE  v \in ExpiringVehicles(r, horizon)
             <=> Live(v) /\ \E d \in Dated(v) : Expiry(d) >= r /\ Expiry(d) <= horizon
<1>1. ASSUME NEW d \in inspections(v) \cup pcoDocs(v)
      PROVE  Expiry(d) = docs[d].data["expiryDate"]
  BY <1>1 DEF inspections, pcoDocs, RowsOf, Expiry
<1>2. ASSUME NEW d \in insurances(v)
      PROVE  Expiry(d) = docs[d].data["endDate"]
  BY <1>2 DEF insurances, RowsOf, Expiry
<1>3. QED
  BY <1>1, <1>2 DEF ExpiringVehicles, Dated, Within

\* The date of a document that the reads look at.
LEMMA DatedTyped ==
    ASSUME TypeOK, NEW v, NEW d \in Dated(v)
    PROVE  /\ d \in Docs /\ Expiry(d) \in Time /\ Expiry(d) \in Int
           /\ docs[d].vehicle = v
<1>1. /\ d \in Docs /\ docs[d] # Null /\ docs[d].kind \in ExpiringKinds
      /\ docs[d].vehicle = v /\ Expiry(d) # Null
  BY DatedIs DEF Exists
<1>2. \A f \in Fields(docs[d].kind) : docs[d].data[f] \in Stored(f)
  BY <1>1, RowTyped, StoredValues
<1>3. Expiry(d) \in Stored("endDate") \/ Expiry(d) \in Stored("expiryDate")
  BY <1>1, <1>2 DEF Expiry, ExpiringKinds, Fields, InspectionFields,
     InsuranceFields, PcoDocumentFields
<1>4. Expiry(d) \in Time
  BY <1>1, <1>3 DEF Stored, DateFields
<1>5. QED
  BY <1>1, <1>4, DayAssumption DEF Time

\* What getInternalDriverDocumentExpiry says of a document.
Item(d) == [doc |-> d, vehicle |-> docs[d].vehicle,
            days |-> daysUntilExpiry(Expiry(d), now), reviewStatus |-> "ACCEPTED"]

\* What getInternalDriverDocumentExpiry answers, without its buckets.
LEMMA ReadNames ==
    ASSUME TypeOK, NEW p \in Drivers, NEW h \in Horizons, NEW i
    PROVE  LET read == DriverDocumentExpiry(p, h, now)
           IN /\ i \in read.expired
                   <=> \E v \in LiveVehicles(p) : \E d \in Dated(v) :
                          Expiry(d) < now /\ i = Item(d)
              /\ i \in read.expiringSoon
                   <=> \E v \in LiveVehicles(p) : \E d \in Dated(v) :
                          /\ Expiry(d) >= now /\ Expiry(d) <= now + Days(h)
                          /\ i = Item(d)
<1> DEFINE all == UNION {Dated(v) : v \in LiveVehicles(p)}
           Bucket(b) == {Item(d) : d \in {d \in all :
                            classifyExpiryBucket(Expiry(d), now, h) = b}}
<1>1. DriverDocumentExpiry(p, h, now)
        = [expired |-> Bucket("expired"), expiringSoon |-> Bucket("expiringSoon")]
  BY DEF DriverDocumentExpiry, Item
<1>2. now \in Int /\ h \in Int
  BY HorizonsAssumption, DayAssumption DEF TypeOK, Time
<1>3. \A v : \A d \in Dated(v) :
        /\ classifyExpiryBucket(Expiry(d), now, h) = "expired" <=> Expiry(d) < now
        /\ classifyExpiryBucket(Expiry(d), now, h) = "expiringSoon"
             <=> Expiry(d) >= now /\ Expiry(d) <= now + Days(h)
  BY <1>2, DatedTyped, BucketIs
<1>4. \A d : d \in all <=> \E v \in LiveVehicles(p) : d \in Dated(v)
  OBVIOUS
<1>5. i \in Bucket("expired")
        <=> \E v \in LiveVehicles(p) : \E d \in Dated(v) : Expiry(d) < now /\ i = Item(d)
  <2> HIDE DEF all
  <2>1. QED
    BY <1>3, <1>4
<1>6. i \in Bucket("expiringSoon")
        <=> \E v \in LiveVehicles(p) : \E d \in Dated(v) :
               /\ Expiry(d) >= now /\ Expiry(d) <= now + Days(h)
               /\ i = Item(d)
  <2> HIDE DEF all
  <2>1. QED
    BY <1>3, <1>4
<1>7. QED
  BY <1>1, <1>5, <1>6

\* A driver is in one of the lists of drivers when a live vehicle of the
\* driver has a dated document in the range.
LEMMA DriverIdsAre ==
    ASSUME NEW p \in Drivers, NEW h \in Horizons
    PROVE  /\ p \in ExpiredDocumentDriverIds(now)
                <=> \E v \in LiveVehicles(p) : \E d \in Dated(v) : Expiry(d) < now
           /\ p \in ExpiringDocumentDriverIds(h, now)
                <=> \E v \in LiveVehicles(p) : \E d \in Dated(v) :
                       Expiry(d) >= now /\ Expiry(d) <= now + Days(h)
<1>1. Clamp(h) = h
  BY HorizonsAssumption DEF Clamp
<1>2. \A v \in ExpiredVehicles(now) : v \in Vehicles
  BY DEF ExpiredVehicles
<1>3. \A v \in ExpiringVehicles(now, now + Days(h)) : v \in Vehicles
  BY DEF ExpiringVehicles
<1>4. p \in ExpiredDocumentDriverIds(now)
        <=> \E v \in LiveVehicles(p) : \E d \in Dated(v) : Expiry(d) < now
  BY <1>2, ExpiredVehiclesAre DEF ExpiredDocumentDriverIds, LiveVehicles
<1>5. p \in ExpiringDocumentDriverIds(h, now)
        <=> \E v \in LiveVehicles(p) : \E d \in Dated(v) :
               Expiry(d) >= now /\ Expiry(d) <= now + Days(h)
  BY <1>1, <1>3, ExpiringVehiclesAre DEF ExpiringDocumentDriverIds, LiveVehicles
<1>6. QED
  BY <1>4, <1>5

\* The admin's list by isExpired alone.
LEMMA ListedByExpiry ==
    ASSUME NEW v \in Vehicles
    PROVE  /\ v \in adminListVehicles([Everything EXCEPT !.isExpired = TRUE])
                <=> v \in ExpiredVehicles(now)
           /\ v \in adminListVehicles([Everything EXCEPT !.isExpired = FALSE])
                <=> Live(v) /\ v \notin ExpiredVehicles(now)
<1> DEFINE q(b) == [Everything EXCEPT !.isExpired = b]
<1>1. \A b : q(b).isExpired = b /\ q(b).search = FALSE
  BY DEF Everything
<1>2. \A b : fetchDriverIdsByName(q(b)) = {}
  BY <1>1 DEF fetchDriverIdsByName
<1> HIDE DEF q
<1>3. adminListVehicles(q(TRUE))
        = {w \in Vehicles : Live(w) /\ w \in ExpiredVehicles(now)}
  BY <1>1, <1>2 DEF adminListVehicles
<1>4. adminListVehicles(q(FALSE))
        = {w \in Vehicles : Live(w) /\ w \notin ExpiredVehicles(now)}
  BY <1>1, <1>2 DEF adminListVehicles
<1>5. v \in ExpiredVehicles(now) => Live(v)
  BY ExpiredVehiclesAre
<1>6. QED
  BY <1>3, <1>4, <1>5 DEF q

\* The review statuses show a document that exists, on a live vehicle of the
\* driver, as accepted exactly when it is.
LEMMA ShownAccepted ==
    ASSUME TypeOK, NEW p \in Drivers, NEW s
    PROVE  /\ s \in DriverDocumentStatus(p)
           /\ docs[s.doc].kind \in ExpiringKinds /\ s.reviewStatus = "ACCEPTED"
           <=> \E d \in Docs :
                  /\ Exists(d) /\ docs[d].vehicle \in LiveVehicles(p)
                  /\ docs[d].kind \in ExpiringKinds /\ docs[d].status = "ACCEPTED"
                  /\ s = [doc |-> d, vehicle |-> docs[d].vehicle,
                          reviewStatus |-> "ACCEPTED"]
<1> DEFINE Status(d) == [doc |-> d, vehicle |-> docs[d].vehicle,
                         reviewStatus |-> normalizeToReviewStatus(docs[d].status)]
<1>1. ASSUME NEW d \in Docs, Exists(d)
      PROVE  normalizeToReviewStatus(docs[d].status) = "ACCEPTED"
               <=> docs[d].status = "ACCEPTED"
  BY <1>1 DEF Exists, DocumentStatus, normalizeToReviewStatus
<1>2. s \in DriverDocumentStatus(p)
        <=> \E d \in Docs :
               /\ Exists(d) /\ docs[d].vehicle \in LiveVehicles(p)
               /\ docs[d].kind \in {"PERMISSION_LETTER", "SCHEDULE"}
                    => docs[d].vehicle \in optional
               /\ s = Status(d)
  BY DEF DriverDocumentStatus
<1>3. \A d : Status(d).doc = d
             /\ Status(d).reviewStatus = normalizeToReviewStatus(docs[d].status)
  OBVIOUS
<1>4. \A d : docs[d].kind \in ExpiringKinds
        => docs[d].kind \notin {"PERMISSION_LETTER", "SCHEDULE"}
  BY DEF ExpiringKinds
<1>5. \A d : normalizeToReviewStatus(docs[d].status) = "ACCEPTED"
        => Status(d) = [doc |-> d, vehicle |-> docs[d].vehicle,
                        reviewStatus |-> "ACCEPTED"]
  OBVIOUS
<1> HIDE DEF Status
<1>6. ASSUME s \in DriverDocumentStatus(p), docs[s.doc].kind \in ExpiringKinds,
             s.reviewStatus = "ACCEPTED"
      PROVE  \E d \in Docs :
                  /\ Exists(d) /\ docs[d].vehicle \in LiveVehicles(p)
                  /\ docs[d].kind \in ExpiringKinds /\ docs[d].status = "ACCEPTED"
                  /\ s = [doc |-> d, vehicle |-> docs[d].vehicle,
                          reviewStatus |-> "ACCEPTED"]
  BY <1>1, <1>2, <1>3, <1>5, <1>6
<1>7. ASSUME NEW d \in Docs, Exists(d), docs[d].vehicle \in LiveVehicles(p),
             docs[d].kind \in ExpiringKinds, docs[d].status = "ACCEPTED",
             s = [doc |-> d, vehicle |-> docs[d].vehicle, reviewStatus |-> "ACCEPTED"]
      PROVE  /\ s \in DriverDocumentStatus(p)
             /\ docs[s.doc].kind \in ExpiringKinds /\ s.reviewStatus = "ACCEPTED"
  <2>1. s = Status(d)
    BY <1>1, <1>5, <1>7
  <2>2. s \in DriverDocumentStatus(p)
    BY <1>2, <1>4, <1>7, <2>1
  <2>3. QED
    BY <1>7, <2>2
<1>8. QED
  BY <1>6, <1>7

\* The reads of what is expired and of what expires soon agree in every
\* state, though each filters by itself: those of one driver, the lists of
\* drivers, the admin's list and the review statuses.
THEOREM ReadsAgree == Spec => []ExpiryReadsAgree
<1>1. ASSUME TypeOK, NEW p \in Drivers, NEW h \in Horizons
      PROVE  LET read == DriverDocumentExpiry(p, h, now)
                 past == {i.vehicle : i \in read.expired}
                 shown == {s \in DriverDocumentStatus(p) :
                             /\ docs[s.doc].kind \in ExpiringKinds
                             /\ Before(Expiry(s.doc), now)
                             /\ s.reviewStatus = "ACCEPTED"}
                 Listed(expired) ==
                    adminListVehicles([Everything EXCEPT !.isExpired = expired])
             IN /\ read.expired # {} <=> p \in ExpiredDocumentDriverIds(now)
                /\ read.expiringSoon # {} <=> p \in ExpiringDocumentDriverIds(h, now)
                /\ \A v \in LiveVehicles(p) :
                      /\ v \in Listed(TRUE) <=> v \in past
                      /\ v \in Listed(FALSE) <=> v \notin past
                /\ {[doc |-> i.doc, vehicle |-> i.vehicle,
                     reviewStatus |-> i.reviewStatus] : i \in read.expired} = shown
  <2> DEFINE read == DriverDocumentExpiry(p, h, now)
             past == {i.vehicle : i \in read.expired}
             Entry(d) == [doc |-> d, vehicle |-> docs[d].vehicle,
                          reviewStatus |-> "ACCEPTED"]
             entries == {[doc |-> i.doc, vehicle |-> i.vehicle,
                          reviewStatus |-> i.reviewStatus] : i \in read.expired}
             shown == {s \in DriverDocumentStatus(p) :
                         /\ docs[s.doc].kind \in ExpiringKinds
                         /\ Before(Expiry(s.doc), now)
                         /\ s.reviewStatus = "ACCEPTED"}
             Past(d) == Expiry(d) < now
             Soon(d) == Expiry(d) >= now /\ Expiry(d) <= now + Days(h)
  <2>1. \A i : /\ i \in read.expired <=> \E v \in LiveVehicles(p) : \E d \in Dated(v) :
                                            Past(d) /\ i = Item(d)
               /\ i \in read.expiringSoon <=> \E v \in LiveVehicles(p) :
                                        \E d \in Dated(v) : Soon(d) /\ i = Item(d)
    BY <1>1, ReadNames
  <2>2. /\ p \in ExpiredDocumentDriverIds(now)
             <=> \E v \in LiveVehicles(p) : \E d \in Dated(v) : Past(d)
        /\ p \in ExpiringDocumentDriverIds(h, now)
             <=> \E v \in LiveVehicles(p) : \E d \in Dated(v) : Soon(d)
    BY DriverIdsAre
  <2>3. \A v \in LiveVehicles(p) :
           v \in ExpiredVehicles(now) <=> \E d \in Dated(v) : Past(d)
    BY ExpiredVehiclesAre DEF LiveVehicles
  <2>4. \A d : Item(d).doc = d /\ Item(d).vehicle = docs[d].vehicle
               /\ Item(d).reviewStatus = "ACCEPTED"
    BY DEF Item
  <2>5. \A s : s \in DriverDocumentStatus(p)
               /\ docs[s.doc].kind \in ExpiringKinds /\ s.reviewStatus = "ACCEPTED"
           <=> \E d \in Docs :
                  /\ Exists(d) /\ docs[d].vehicle \in LiveVehicles(p)
                  /\ docs[d].kind \in ExpiringKinds /\ docs[d].status = "ACCEPTED"
                  /\ s = Entry(d)
    BY <1>1, ShownAccepted
  <2>6. \A d : Entry(d).doc = d
    OBVIOUS
  <2>7. \A v : \A d : d \in Dated(v) <=> /\ d \in Docs /\ Exists(d) /\ docs[d].vehicle = v
                                         /\ docs[d].kind \in ExpiringKinds
                                         /\ docs[d].status = "ACCEPTED"
                                         /\ Expiry(d) # Null
    BY DatedIs
  <2>8. \A d : Before(Expiry(d), now) <=> Expiry(d) # Null /\ Past(d)
    BY DEF Before
  <2> HIDE DEF read, Past, Soon, Entry
  <2>9. /\ read.expired # {} <=> p \in ExpiredDocumentDriverIds(now)
        /\ read.expiringSoon # {} <=> p \in ExpiringDocumentDriverIds(h, now)
    BY <2>1, <2>2
  <2>10. ASSUME NEW v \in LiveVehicles(p)
         PROVE  v \in past <=> v \in ExpiredVehicles(now)
    <3>1. v \in past <=> \E i \in read.expired : v = i.vehicle
      OBVIOUS
    <3>2. v \in past <=> \E w \in LiveVehicles(p) : \E d \in Dated(w) :
                            Past(d) /\ v = docs[d].vehicle
      BY <2>1, <2>4, <3>1
    <3>3. v \in past <=> \E d \in Dated(v) : Past(d)
      BY <2>7, <3>2
    <3>4. QED
      BY <2>3, <3>3
  <2>11. \A v \in LiveVehicles(p) :
            /\ v \in adminListVehicles([Everything EXCEPT !.isExpired = TRUE])
                 <=> v \in past
            /\ v \in adminListVehicles([Everything EXCEPT !.isExpired = FALSE])
                 <=> v \notin past
    BY <2>10, ListedByExpiry DEF LiveVehicles
  <2>12. \A s : s \in entries <=> \E v \in LiveVehicles(p) : \E d \in Dated(v) :
                                     Past(d) /\ s = Entry(d)
    <3>1. \A s : s \in entries <=> \E i \in read.expired :
                    s = [doc |-> i.doc, vehicle |-> i.vehicle,
                         reviewStatus |-> i.reviewStatus]
      OBVIOUS
    <3>2. \A d : Entry(d) = [doc |-> Item(d).doc, vehicle |-> Item(d).vehicle,
                             reviewStatus |-> Item(d).reviewStatus]
      BY <2>4 DEF Entry
    <3>3. QED
      BY <2>1, <3>1, <3>2
  <2>13. \A s : s \in shown <=> \E d \in Docs :
            /\ Exists(d) /\ docs[d].vehicle \in LiveVehicles(p)
            /\ docs[d].kind \in ExpiringKinds /\ docs[d].status = "ACCEPTED"
            /\ Expiry(d) # Null /\ Past(d) /\ s = Entry(d)
    <3>1. \A s : s \in shown <=>
             /\ s \in DriverDocumentStatus(p)
             /\ docs[s.doc].kind \in ExpiringKinds /\ s.reviewStatus = "ACCEPTED"
             /\ Before(Expiry(s.doc), now)
      OBVIOUS
    <3>2. QED
      BY <2>5, <2>6, <2>8, <3>1
  <2>14. entries = shown
    <3>1. \A s : s \in entries <=> s \in shown
      BY <2>7, <2>12, <2>13
    <3> HIDE DEF entries, shown
    <3>2. QED
      BY <3>1
  <2>15. QED
    BY <2>9, <2>11, <2>14 DEF read
<1>2. ASSUME TypeOK, NEW q \in Queries, q.isExpired = FALSE,
             NEW v \in adminListVehicles(q), NEW h \in Horizons,
             NEW i \in DriverDocumentExpiry(DriverOf[v], h, now).expired
      PROVE  i.vehicle # v
  <2>1. v \in Vehicles /\ Live(v) /\ v \notin ExpiredVehicles(now)
    BY <1>2 DEF adminListVehicles
  <2>2. DriverOf[v] \in Drivers
    BY <2>1, DriverAssumption
  <2>3. PICK w \in LiveVehicles(DriverOf[v]), d \in Docs :
            d \in Dated(w) /\ Expiry(d) < now /\ i = Item(d)
    BY <1>2, <2>2, ReadNames, DatedIs
  <2>4. i.vehicle = w
    BY <2>3, DatedIs DEF Item
  <2>5. QED
    BY <2>1, <2>3, <2>4, ExpiredVehiclesAre
<1>3. TypeOK => ExpiryReadsAgree
  BY <1>1, <1>2 DEF ExpiryReadsAgree
<1>4. QED
  BY <1>3, TypeCorrect, PTL

\* Rounding up counts the days after which an instant is past.
LEMMA DaysRoundUp ==
    ASSUME NEW t \in Int, NEW r \in Int
    PROVE  LET days == daysUntilExpiry(t, r)
           IN /\ t <= r + Days(days)
              /\ t > r + Days(days - 1)
<1> DEFINE q == (r - t) \div TicksPerDay
<1>1. TicksPerDay \in Int /\ TicksPerDay > 0
  BY DayAssumption
<1>2. /\ q \in Int
      /\ q * TicksPerDay <= r - t
      /\ r - t < q * TicksPerDay + TicksPerDay
  BY <1>1
<1>3. Days(-q) = -(q * TicksPerDay) /\ Days(-q - 1) = -(q * TicksPerDay) - TicksPerDay
  <2> HIDE DEF q
  <2>1. QED
    BY <1>1, <1>2 DEF Days
<1>4. daysUntilExpiry(t, r) = -q
  BY DEF daysUntilExpiry
<1>5. QED
  <2> HIDE DEF q
  <2>1. q * TicksPerDay \in Int
    BY <1>1, <1>2
  <2>2. QED
    BY <1>1, <1>2, <1>3, <1>4, <2>1

\* The days that a driver is shown for a document are the least number of
\* whole days after which it is at or past its date, with any ticks to a day.
THEOREM ShownDaysAreExact == Spec => []DaysAreExact
<1>1. ASSUME TypeOK
      PROVE  DaysAreExact
  <2> SUFFICES ASSUME NEW p \in Drivers, NEW h \in Horizons,
                      NEW i, \/ i \in DriverDocumentExpiry(p, h, now).expired
                             \/ i \in DriverDocumentExpiry(p, h, now).expiringSoon
               PROVE  /\ Expiry(i.doc) <= now + Days(i.days)
                      /\ Expiry(i.doc) > now + Days(i.days - 1)
    BY DEF DaysAreExact
  <2>1. PICK v \in LiveVehicles(p), d \in Docs :
            /\ d \in Dated(v)
            /\ i = Item(d)
    BY <1>1, ReadNames, DatedIs
  <2>2. Expiry(d) \in Int /\ now \in Int
    BY <1>1, <2>1, DatedTyped, DayAssumption DEF TypeOK, Time
  <2>3. i.doc = d /\ i.days = daysUntilExpiry(Expiry(d), now)
    BY <2>1 DEF Item
  <2>4. QED
    BY <2>2, <2>3, DaysRoundUp
<1>2. QED
  BY <1>1, TypeCorrect, PTL

(***************************************************************************)
(* Submissions, acceptances and time.                                      *)
(***************************************************************************)
\* Two functions on the same fields differ in a field.
LEMMA SameValues ==
    ASSUME NEW fields, NEW x \in Values(fields, Written), NEW y \in Values(fields, Written)
    PROVE  x = y <=> \A f \in fields : x[f] = y[f]
<1>1. x = [f \in fields |-> x[f]] /\ y = [f \in fields |-> y[f]]
  BY WrittenValues
<1>2. QED
  BY <1>1

\* A driver is told "no change" exactly when nothing would change, and then
\* the same fields written directly keep every day and value.
THEOREM NoChangeIsRefusedRightly == Spec => []NoChangeIsNoChange
<1>1. ASSUME TypeOK
      PROVE  NoChangeIsNoChange
  <2> SUFFICES ASSUME NEW d \in Docs, Exists(d), NEW dto \in Dtos[docs[d].kind]
               PROVE  LET row == docs[d]
                          payload == ProposeFor(row.kind, row.data, dto)
                          direct == Overwrite(row.data, Columns(dto))
                      IN /\ payload.changed = {}
                               <=> ~Differs(Fields(row.kind), payload, row.data)
                         /\ payload.changed = {} =>
                               \A f \in Fields(row.kind) :
                                  Content(f, direct[f]) = Content(f, row.data[f])
    BY DEF NoChangeIsNoChange
  <2> DEFINE kind == docs[d].kind
             fields == Fields(kind)
             data == docs[d].data
             payload == ProposeFor(kind, data, dto)
             direct == Overwrite(data, Columns(dto))
  <2>1. kind \in Kinds /\ data \in Values(fields, Stored)
    BY <1>1, RowTyped DEF Exists
  <2>2. /\ DOMAIN dto \subseteq fields
        /\ \A f \in DOMAIN dto : dto[f] \in Written(f)
        /\ DOMAIN Columns(dto) = DOMAIN dto
        /\ \A f \in DOMAIN dto : /\ Columns(dto)[f] = Named(f, dto[f])
                                 /\ Columns(dto)[f] \in Stored(f)
    BY <2>1, DtoTyped
  <2> HIDE DEF kind, data
  <2>3. /\ payload.data = Build(fields, data, dto)
        /\ payload.changed = {f \in DOMAIN dto : dto[f] # ToPayload(f, data[f])}
    BY <2>1, ProposeTyped DEF kind
  <2>4. /\ Build(fields, data, dto) \in Values(fields, Written)
        /\ \A f \in fields : Build(fields, data, dto)[f]
              = IF f \in DOMAIN dto THEN dto[f] ELSE ToPayload(f, data[f])
    <3>1. \A f \in fields \cap DOMAIN dto : dto[f] \in Written(f)
      BY <2>2
    <3> HIDE DEF fields, payload, direct
    <3>2. Build(fields, data, dto) \in Values(fields, Written)
      BY <2>1, <3>1, BuildTyped
    <3>3. QED
      BY <3>2, BuildIs
  <2>5. /\ Current(fields, data) \in Values(fields, Written)
        /\ \A f \in fields : Current(fields, data)[f] = ToPayload(f, data[f])
    BY <2>1, CurrentTyped
  <2>6. payload.data = Current(fields, data)
          <=> \A f \in DOMAIN dto : dto[f] = ToPayload(f, data[f])
    <3>1. payload.data = Current(fields, data)
            <=> \A f \in fields : payload.data[f] = Current(fields, data)[f]
      BY <2>3, <2>4, <2>5, SameValues
    <3>2. QED
      BY <2>2, <2>3, <2>4, <2>5, <3>1
  <2>7. payload.changed = {} <=> ~Differs(fields, payload, data)
    BY <2>3, <2>6 DEF Differs
  <2>8. ASSUME payload.changed = {}, NEW f \in fields
        PROVE  Content(f, direct[f]) = Content(f, data[f])
    <3>1. data[f] \in Stored(f)
      BY <2>1, StoredValues
    <3>2. direct[f] = IF f \in DOMAIN dto THEN Columns(dto)[f] ELSE data[f]
      <4>1. \A g \in fields \cap DOMAIN Columns(dto) : Columns(dto)[g] \in Stored(g)
        BY <2>2
      <4>2. \A g \in fields : direct[g]
              = IF g \in DOMAIN Columns(dto) THEN Columns(dto)[g] ELSE data[g]
        BY <2>1, <4>1, OverwriteTyped
      <4>3. QED
        BY <2>2, <2>8, <4>2
    <3>3. CASE f \in DOMAIN dto
      <4>1. dto[f] = ToPayload(f, data[f])
        BY <2>3, <2>8, <3>3
      <4>2. Columns(dto)[f] = ToColumn(f, dto[f])
        BY <3>3 DEF Columns
      <4>3. QED
        BY <3>1, <3>2, <3>3, <4>1, <4>2, ThereAndBack
    <3>4. CASE f \notin DOMAIN dto
      BY <3>2, <3>4
    <3>5. QED
      BY <3>3, <3>4
  <2>9. QED
    BY <2>7, <2>8 DEF kind, data
<1>2. QED
  BY <1>1, TypeCorrect, PTL

\* Time is moved by Tick alone, which changes nothing else.
LEMMA OnlyTickMovesTime ==
    ASSUME [Next]_vars, now' # now
    PROVE  Tick
<1>1. Call => now' = now
  BY DEF Call, Create, UpdateByDriver, UpdateByAdmin, Submit, Delete, Archive,
         Restore, adminRequestOptionalDocuments
<1>2. (\E d \in Docs : Accept(d) \/ Refuse(d)) => now' = now
  BY DEF Accept, Refuse, Close
<1>3. QED
  BY <1>1, <1>2 DEF Next, vars

\* A driver whom time alone makes one with expired documents was listed
\* before as having documents that expire within a day: nothing falls
\* between the two lists of drivers.
THEOREM NothingExpiresUnforeseen == Spec => ExpiryIsForeseen
<1>1. ASSUME TypeOK, [Next]_vars, now' # now
      PROVE  ExpiredDocumentDriverIds(now)' \ ExpiredDocumentDriverIds(now)
                \subseteq ExpiringDocumentDriverIds(1, now)
  <2>1. now' = now + 1 /\ UNCHANGED <<docs, archived>>
    BY <1>1, OnlyTickMovesTime DEF Tick
  <2>2. now \in Int /\ 1 <= Days(1)
    BY <1>1, DayAssumption DEF TypeOK, Time, Days
  <2> SUFFICES ASSUME NEW p \in ExpiredDocumentDriverIds(now)',
                      p \notin ExpiredDocumentDriverIds(now)
               PROVE  p \in ExpiringDocumentDriverIds(1, now)
    OBVIOUS
  <2>3. ExpiredDocumentDriverIds(now)' = ExpiredDocumentDriverIds(now + 1)
    BY <2>1 DEF ExpiredDocumentDriverIds, ExpiredVehicles, inspections, insurances,
                pcoDocs, RowsOf, Live, Exists
  <2>4. PICK v \in ExpiredVehicles(now + 1) : p = DriverOf[v]
    BY <2>3 DEF ExpiredDocumentDriverIds
  <2>5. v \in Vehicles
    BY DEF ExpiredVehicles
  <2>6. Live(v)
    BY <2>5, ExpiredVehiclesAre
  <2>7. PICK d \in Dated(v) : Expiry(d) < now + 1
    BY <2>5, ExpiredVehiclesAre
  <2>8. Expiry(d) \in Int
    BY <1>1, <2>7, DatedTyped
  <2>9. ~(Expiry(d) < now)
    BY <2>4, <2>5, <2>6, <2>7, ExpiredVehiclesAre DEF ExpiredDocumentDriverIds
  <2>10. Expiry(d) >= now /\ Expiry(d) <= now + Days(1)
    <3>1. Days(1) \in Int
      BY DayAssumption DEF Days
    <3>2. QED
      BY <2>2, <2>7, <2>8, <2>9, <3>1
  <2>11. Clamp(1) = 1
    BY DEF Clamp
  <2>12. v \in ExpiringVehicles(now, now + Days(Clamp(1)))
    BY <2>5, <2>6, <2>7, <2>10, <2>11, ExpiringVehiclesAre
  <2>13. QED
    BY <2>4, <2>12 DEF ExpiringDocumentDriverIds
<1>2. QED
  BY <1>1, TypeCorrect, PTL DEF Spec, ExpiryIsForeseen

\* The strengthening: a request with a history holds the proposal that the
\* submission built from the row of that moment, and its list of changed
\* fields is not empty.
SentIsProposed ==
    \A d \in Docs : sent[d] # Null =>
        /\ docs[d] # Null
        /\ sent[d].about \in Values(Fields(docs[d].kind), Stored)
        /\ sent[d].dto \in Dtos[docs[d].kind]
        /\ requests[d] = ProposeFor(docs[d].kind, sent[d].about, sent[d].dto)
        /\ requests[d].changed # {}

LEMMA HistoryIsTrue == Spec => []SentIsProposed
<1>1. Init => SentIsProposed
  BY DEF Init, SentIsProposed
<1>2. TypeOK /\ SentIsProposed /\ [Next]_vars => SentIsProposed'
  <2> SUFFICES ASSUME TypeOK, SentIsProposed, [Next]_vars,
                      NEW e \in Docs, sent'[e] # Null
               PROVE  /\ docs'[e] # Null
                      /\ sent'[e].about \in Values(Fields(docs'[e].kind), Stored)
                      /\ sent'[e].dto \in Dtos[docs'[e].kind]
                      /\ requests'[e] = ProposeFor(docs'[e].kind, sent'[e].about,
                                                   sent'[e].dto)
                      /\ requests'[e].changed # {}
    BY DEF SentIsProposed
  <2>1. KindsKept
    BY StepKinds
  <2>2. DOMAIN requests = Docs /\ DOMAIN sent = Docs
    BY DEF TypeOK
  <2>3. CASE sent'[e] = sent[e] /\ requests'[e] = requests[e]
    BY <2>1, <2>3 DEF SentIsProposed, KindsKept
  <2>4. CASE ~(sent'[e] = sent[e] /\ requests'[e] = requests[e])
    <3>1. \E d \in Docs : \E dto \in Dtos[docs[d].kind] : Submission(d, dto)
      BY <2>2, <2>4, StepKinds
    <3>2. PICK dto \in Dtos[docs[e].kind] : Submission(e, dto)
      BY <2>2, <2>4, <3>1 DEF Submission
    <3>3. /\ docs[e] # Null
          /\ docs[e].data \in Values(Fields(docs[e].kind), Stored)
      BY <3>2, RowTyped DEF Submission
    <3>4. /\ docs' = docs
          /\ sent'[e] = [dto |-> dto, about |-> docs[e].data]
          /\ requests'[e] = ProposeFor(docs[e].kind, docs[e].data, dto)
          /\ requests'[e].changed # {}
      BY <2>2, <3>2 DEF Submission
    <3>5. QED
      BY <3>3, <3>4
  <2>5. QED
    BY <2>3, <2>4
<1>3. QED
  BY <1>1, <1>2, TypeCorrect, PTL DEF Spec

\* An acceptance writes what the driver sent where it differed from the
\* document of then, and touches nothing that the driver did not send.
THEOREM AcceptancesKeepTheRest == Spec => AcceptKeepsTheRest
<1>1. ASSUME TypeOK, SentIsProposed, NEW d \in Docs, Accept(d), sent[d] # Null,
             NEW f \in Fields(docs[d].kind)
      PROVE  LET x == docs'[d].data[f]
                 dto == sent[d].dto
             IN /\ x # docs[d].data[f] => f \in DOMAIN dto /\ x = Named(f, dto[f])
                /\ f \in DOMAIN dto
                     /\ Content(f, Named(f, dto[f])) # Content(f, sent[d].about[f])
                     => x = Named(f, dto[f])
  <2> DEFINE kind == docs[d].kind
             fields == Fields(kind)
             data == docs[d].data
             x == docs'[d].data[f]
  <2> DEFINE about == sent[d].about
             dto == sent[d].dto
  <2>1. /\ about \in Values(fields, Stored) /\ dto \in Dtos[kind]
        /\ requests[d] = ProposeFor(kind, about, dto)
        /\ requests[d].changed # {}
    BY <1>1 DEF SentIsProposed
  <2>2. kind \in Kinds /\ data \in Values(fields, Stored)
        /\ requests[d] \in Payload(kind)
        /\ docs'[d].data = applyAcceptedPayload(kind, requests[d], data)
    BY <1>1, AcceptWrites, RowTyped
  <2>0. f \in fields
    BY <1>1
  <2> HIDE DEF kind, data, about, dto
  <2>3. /\ requests[d].data = Build(fields, about, dto)
        /\ requests[d].changed = {g \in DOMAIN dto : dto[g] # ToPayload(g, about[g])}
    BY <2>1, <2>2, ProposeTyped
  <2>4. parseStoredChangedFields(fields, requests[d]) = requests[d].changed
    <3>1. Null \notin SUBSET fields
      BY <2>2, NullIsNoList
    <3>2. requests[d].changed \in SUBSET fields
      BY <2>1, <2>2, <2>3, DtoTyped
    <3>3. requests[d].changed # Null /\ requests[d].changed \cap fields = requests[d].changed
      BY <3>1, <3>2
    <3>4. QED
      BY <3>3 DEF parseStoredChangedFields
  <2>5. x = IF f \in requests[d].changed THEN Named(f, requests[d].data[f]) ELSE data[f]
    BY <2>0, <2>1, <2>2, <2>4, ApplyTyped DEF kind
  <2>6. f \in DOMAIN dto => requests[d].data[f] = dto[f] /\ dto[f] \in Written(f)
    <3>1. DOMAIN dto \subseteq fields /\ \A g \in DOMAIN dto : dto[g] \in Written(g)
      BY <2>1, <2>2, DtoTyped
    <3>2. \A g \in fields : Build(fields, about, dto)[g]
            = IF g \in DOMAIN dto THEN dto[g] ELSE ToPayload(g, about[g])
      BY BuildIs
    <3>3. ASSUME f \in DOMAIN dto
          PROVE  requests[d].data[f] = dto[f] /\ dto[f] \in Written(f)
      <4>1. Build(fields, about, dto)[f] = dto[f]
        BY <2>0, <3>2, <3>3
      <4>2. QED
        BY <2>3, <3>1, <3>3, <4>1
    <3>4. QED
      BY <3>3
  <2>7. ASSUME f \in DOMAIN dto, dto[f] = ToPayload(f, about[f])
        PROVE  Content(f, Named(f, dto[f])) = Content(f, about[f])
    <3>1. about[f] \in Stored(f)
      BY <2>0, <2>1, StoredValues
    <3>2. ToColumn(f, dto[f]) = Named(f, dto[f])
      BY <2>6, <2>7, ColumnTyped
    <3>3. QED
      BY <2>7, <3>1, <3>2, ThereAndBack
  <2>8. /\ x # data[f] => f \in DOMAIN dto /\ x = Named(f, dto[f])
        /\ f \in DOMAIN dto /\ Content(f, Named(f, dto[f])) # Content(f, about[f])
              => x = Named(f, dto[f])
    BY <2>3, <2>5, <2>6, <2>7
  <2>9. QED
    BY <2>8 DEF kind, data, about, dto
<1>2. TypeOK /\ SentIsProposed =>
        \A d \in Docs : Accept(d) /\ sent[d] # Null =>
         \A f \in Fields(docs[d].kind) :
            LET x == docs'[d].data[f]
                dto == sent[d].dto
            IN /\ x # docs[d].data[f] => f \in DOMAIN dto /\ x = Named(f, dto[f])
               /\ f \in DOMAIN dto
                    /\ Content(f, Named(f, dto[f])) # Content(f, sent[d].about[f])
                    => x = Named(f, dto[f])
  BY <1>1
<1>3. QED
  BY <1>2, TypeCorrect, HistoryIsTrue, PTL DEF Spec, AcceptKeepsTheRest

\* What a reviewer is shown of a request is what its acceptance writes: the
\* listed fields, or all if no list was shown, and nothing else.
THEOREM ReviewersSeeWhatIsApplied == Spec => ReviewerSeesWhatIsApplied
<1>1. ASSUME TypeOK, NEW d \in Docs, Accept(d), NEW f \in Fields(docs[d].kind)
      PROVE  LET shown == mapChangePayloadForResponse(docs[d].kind, requests[d])
             IN IF shown.changed = Null \/ f \in shown.changed
                THEN Content(f, docs'[d].data[f]) = Content(f, Named(f, shown.data[f]))
                ELSE docs'[d].data[f] = docs[d].data[f]
  <2> DEFINE kind == docs[d].kind
             fields == Fields(kind)
             data == docs[d].data
             payload == requests[d]
             shown == mapChangePayloadForResponse(kind, payload)
             listed == parseStoredChangedFields(fields, payload)
  <2>1. /\ kind \in Kinds /\ data \in Values(fields, Stored)
        /\ payload \in Payload(kind)
        /\ docs'[d].data = applyAcceptedPayload(kind, payload, data)
        /\ f \in fields
    BY <1>1, AcceptWrites, RowTyped
  <2> HIDE DEF kind, payload, data
  <2>2. /\ payload.data[f] \in Written(f)
        /\ docs'[d].data[f] = IF listed = {} \/ f \in listed
                              THEN Named(f, payload.data[f]) ELSE data[f]
    BY <2>1, ApplyTyped
  <2>3. shown.data[f] = payload.data[f]
    <3>1. shown.data[f] = IF f = "document" THEN pickMediaRef(payload.data[f])
                                            ELSE payload.data[f]
      BY <2>1 DEF mapChangePayloadForResponse
    <3>2. QED
      BY <2>2, <3>1, WrittenReference
  <2>4. shown.changed = Null <=> listed = {}
    <3>1. shown.changed = IF listed = {} THEN Null ELSE listed
      BY DEF mapChangePayloadForResponse
    <3>2. listed \in SUBSET fields
      BY DEF parseStoredChangedFields
    <3>3. listed # Null
      BY <2>1, <3>2, NullIsNoList
    <3>4. QED
      BY <3>1, <3>3
  <2>5. listed # {} => shown.changed = listed
    BY DEF mapChangePayloadForResponse
  <2> HIDE DEF shown, listed
  <2>6. IF shown.changed = Null \/ f \in shown.changed
        THEN docs'[d].data[f] = Named(f, shown.data[f])
        ELSE docs'[d].data[f] = data[f]
    BY <2>2, <2>3, <2>4, <2>5
  <2>7. QED
    BY <2>6 DEF kind, payload, data, shown
<1>2. TypeOK => \A d \in Docs : Accept(d) =>
         LET shown == mapChangePayloadForResponse(docs[d].kind, requests[d])
         IN \A f \in Fields(docs[d].kind) :
               IF shown.changed = Null \/ f \in shown.changed
               THEN Content(f, docs'[d].data[f]) = Content(f, Named(f, shown.data[f]))
               ELSE docs'[d].data[f] = docs[d].data[f]
  BY <1>1
<1>3. QED
  BY <1>2, TypeCorrect, PTL DEF Spec, ReviewerSeesWhatIsApplied
=============================================================================
