---------------------------- MODULE DocumentExpiry ----------------------------
(***************************************************************************)
(* The dates on the documents of several drivers' vehicles, how handlers   *)
(* and accepted change requests write them, the passing of time, and the   *)
(* reads that depend on both: the expiry of a driver's documents, the      *)
(* drivers with expired or soon expiring documents, the review statuses    *)
(* and the admin's list of vehicles.                                       *)
(*                                                                         *)
(* Handlers are atomic here; DocumentReview models how they overlap.       *)
(***************************************************************************)
EXTENDS ChangePayload

CONSTANTS
    Docs, Vehicles, Drivers,
    DriverOf,     \* the driver of each vehicle
    InitialDocs,  \* what is stored at first
    FormerLists,  \* lists of changed fields that earlier versions may have stored
    Offers,       \* the dates that clients send
    Horizons,     \* the numbers of days that the reads are asked for
    Queries,      \* the searches of the admin's list
    MaxDto,       \* bound on the fields one call names, the status included
    MaxEvents     \* bound on the calls that write

ASSUME DriverAssumption == DriverOf \in [Vehicles -> Drivers]
ASSUME HorizonsAssumption == Horizons \subseteq 1..90
ASSUME MaxAssumption == MaxDto \in Nat /\ MaxEvents \in Nat
ASSUME NullIsNoAnswer == /\ Null \notin BOOLEAN
                         /\ Null \notin {"expired", "expiringSoon"}
ASSUME OffersAssumption == Offers \subseteq {Null} \cup Dates \cup DateTimes

DocumentStatus == {"PENDING", "ACCEPTED", "REJECTED"}

\* The rows of a kind, and the payloads of its change requests.
Values(fields, Column(_)) ==
    {x \in [fields -> UNION {Column(f) : f \in fields}] :
        \A f \in fields : x[f] \in Column(f)}
Rows(kind) == [kind : {kind}, vehicle : Vehicles,
               status : DocumentStatus \cup {"DELETED"},
               data : Values(Fields(kind), Stored)]
Row == UNION {Rows(kind) : kind \in Kinds}
Payload(kind) == [data : Values(Fields(kind), Written),
                  changed : (SUBSET Fields(kind)) \cup FormerLists \cup {Null}]

ASSUME NullIsNoList ==
    /\ Null \notin FormerLists
    /\ \A kind \in Kinds : \A S \in SUBSET Fields(kind) : S # Null
ASSUME InitialAssumption == /\ InitialDocs \subseteq [Docs -> Row \cup {Null}]
                            /\ Null \notin Row

VARIABLES
    docs,      \* the document rows, Null where none was created yet
    requests,  \* the waiting change request of each document, or Null
    sent,      \* history: what the driver sent, and the row it was about
    archived,  \* vehicles with isDeleted
    optional,  \* vehicles with requiestOptionalDocuments
    now,
    events

vars == <<docs, requests, sent, archived, optional, now, events>>

\* The bodies a client may send for the fields of a kind.
Offered(f) == IF f \in DateFields THEN Offers ELSE Written(f)
Dtos == [kind \in Kinds |->
    UNION {{x \in [S -> UNION {Offered(f) : f \in S}] : \A f \in S : x[f] \in Offered(f)} :
             S \in {S \in SUBSET Fields(kind) : Cardinality(S) <= MaxDto}}]
\* A status that is given counts as a field.
Small(dto, given) == Cardinality(DOMAIN dto) + (IF given THEN 1 ELSE 0) <= MaxDto

Live(v) == v \notin archived
Exists(d) == docs[d] # Null /\ docs[d].status \in DocumentStatus
Waiting(d) == requests[d] # Null
\* A log book's document is NOT NULL.
Storable(kind, data) == kind = "LOG_BOOK_V5" => data["document"] # Null

\* Requests that wait at first: earlier versions of the service stored them,
\* without a list of changed fields or with one of theirs.
Earlier(row) ==
    {[data |-> Current(Fields(row.kind), row.data), changed |-> list] :
        list \in {Null} \cup FormerLists}

Init ==
    /\ docs \in InitialDocs
    /\ LET accepted == {d \in Docs : Exists(d) /\ docs[d].status = "ACCEPTED"}
       IN requests \in
            {q \in [Docs -> {Null} \cup UNION {Earlier(docs[d]) : d \in accepted}] :
                \A d \in Docs : q[d] # Null => d \in accepted /\ q[d] \in Earlier(docs[d])}
    /\ sent = [d \in Docs |-> Null]
    /\ archived = {}
    /\ optional = {}
    /\ now = 0
    /\ events = 0

Columns(dto) == [f \in DOMAIN dto |-> ToColumn(f, dto[f])]

----------------------------------------------------------------------------
Put(d, row) ==
    /\ Storable(row.kind, row.data)
    /\ docs' = [docs EXCEPT ![d] = row]

\* create*: an admin may give the status of a kind that expires.
Create(d, v, kind, dto, status) ==
    /\ docs[d] = Null /\ Live(v)
    /\ status # "PENDING" => kind \in ExpiringKinds
    /\ Small(dto, status # "PENDING")
    /\ Put(d, [kind |-> kind, vehicle |-> v, status |-> status,
               data |-> Overwrite([f \in Fields(kind) |-> Null], Columns(dto))])
    /\ UNCHANGED <<requests, sent, archived, optional, now>>

\* update*: a driver may not touch an accepted document, and one that was
\* rejected waits for review again.
UpdateByDriver(d, dto) ==
    /\ Exists(d) /\ Live(docs[d].vehicle) /\ dto # <<>>
    /\ docs[d].status # "ACCEPTED"
    /\ Put(d, [docs[d] EXCEPT !.data = Overwrite(@, Columns(dto)),
                              !.status = "PENDING"])
    /\ UNCHANGED <<requests, sent, archived, optional, now>>

\* update* by an admin; the kinds that do not expire are given a status by
\* adminReview*, which does not look at isDeleted.
UpdateByAdmin(d, dto, status) ==
    /\ Exists(d)
    /\ \/ Live(docs[d].vehicle) /\ docs[d].kind \in ExpiringKinds
       \/ Live(docs[d].vehicle) /\ status = docs[d].status
       \/ dto = <<>> /\ docs[d].kind \notin ExpiringKinds
    /\ Small(dto, status # docs[d].status)
    /\ Put(d, [docs[d] EXCEPT !.data = Overwrite(@, Columns(dto)),
                              !.status = status])
    /\ UNCHANGED <<requests, sent, archived, optional, now>>

\* submit*
Submit(d, dto) ==
    /\ Exists(d) /\ Live(docs[d].vehicle)
    /\ docs[d].status = "ACCEPTED"
    /\ ~Waiting(d)
    /\ LET payload == ProposeFor(docs[d].kind, docs[d].data, dto)
       IN /\ payload.changed # {}
          /\ requests' = [requests EXCEPT ![d] = payload]
    /\ sent' = [sent EXCEPT ![d] = [dto |-> dto, about |-> docs[d].data]]
    /\ UNCHANGED <<docs, archived, optional, now>>

Close(d) ==
    /\ requests' = [requests EXCEPT ![d] = Null]
    /\ sent' = [sent EXCEPT ![d] = Null]
    /\ UNCHANGED <<archived, optional, now>>

\* adminReview, which does not look at isDeleted either
Accept(d) ==
    /\ Waiting(d) /\ docs[d].status = "ACCEPTED"
    /\ Put(d, [docs[d] EXCEPT !.data =
                  applyAcceptedPayload(docs[d].kind, requests[d], @)])
    /\ Close(d)

\* A rejection needs the document accepted too, a cancellation does not.
Refuse(d) == Waiting(d) /\ Close(d) /\ UNCHANGED docs

\* delete*: a waiting request stays.
Delete(d) ==
    /\ Exists(d) /\ Live(docs[d].vehicle)
    /\ docs' = [docs EXCEPT ![d].status = "DELETED"]
    /\ UNCHANGED <<requests, sent, archived, optional, now>>

\* archiveAllVehiclesForDriver and restoreAllVehiclesForDriver
Archive(p) ==
    /\ archived' = archived \cup {v \in Vehicles : DriverOf[v] = p}
    /\ UNCHANGED <<docs, requests, sent, optional, now>>
Restore(p) ==
    /\ archived' = archived \ {v \in Vehicles : DriverOf[v] = p}
    /\ UNCHANGED <<docs, requests, sent, optional, now>>

adminRequestOptionalDocuments(v, value) ==
    /\ optional' = IF value THEN optional \cup {v} ELSE optional \ {v}
    /\ UNCHANGED <<docs, requests, sent, archived, now>>

Tick ==
    /\ now < MaxTime
    /\ now' = now + 1
    /\ UNCHANGED <<docs, requests, sent, archived, optional, events>>

\* Calls that write, at most MaxEvents of them.
Call ==
    /\ events < MaxEvents /\ events' = events + 1
    /\ \/ \E d \in {d \in Docs : docs[d] = Null}, v \in Vehicles, k \in Kinds :
             \E s \in DocumentStatus, dto \in Dtos[k] : Create(d, v, k, dto, s)
       \/ \E d \in {d \in Docs : Exists(d)} :
             \/ \E dto \in Dtos[docs[d].kind] :
                   \/ UpdateByDriver(d, dto) \/ Submit(d, dto)
                   \/ \E s \in DocumentStatus : UpdateByAdmin(d, dto, s)
             \/ Delete(d)
       \/ \E p \in Drivers : Archive(p) \/ Restore(p)
       \/ \E v \in Vehicles, b \in BOOLEAN : adminRequestOptionalDocuments(v, b)

Next ==
    \/ Call
    \/ /\ \E d \in Docs : Accept(d) \/ Refuse(d)
       /\ UNCHANGED events
    \/ Tick

Spec == Init /\ [][Next]_vars

----------------------------------------------------------------------------
(***************************************************************************)
(* The reads, at a reference time r.                                       *)
(***************************************************************************)

\* The relations of a vehicle.
RowsOf(v, kind) == {d \in Docs : Exists(d) /\ docs[d].vehicle = v /\ docs[d].kind = kind}
inspections(v) == RowsOf(v, "INSPECTION")
insurances(v) == RowsOf(v, "INSURANCE")
pcoDocs(v) == RowsOf(v, "PCO_DOCUMENT")

LiveVehicles(p) == {v \in Vehicles : DriverOf[v] = p /\ Live(v)}
Days(n) == n * TicksPerDay

\* Mutant: rounded down.
daysFloor(t, r) == (t - r) \div TicksPerDay

\* Rounded up, towards zero for what is past.
daysUntilExpiry(t, r) == -((r - t) \div TicksPerDay)

classifyExpiryBucket(t, r, h) ==
    CASE t < r -> "expired"
      [] t >= r /\ t <= r + Days(h) -> "expiringSoon"
      [] OTHER -> Null

\* Mutant: what expires at this very moment is left out.
WithinAfter(t, r, horizon) == t # Null /\ t > r /\ t <= horizon

\* Comparisons of a query: a column that is NULL satisfies none.
Before(t, r) == t # Null /\ t < r
Within(t, r, horizon) == t # Null /\ t >= r /\ t <= horizon

\* What getInternalDriverDocumentExpiry selects of a vehicle: accepted rows
\* with a date, filtered for each of the three kinds.
Dated(v) ==
    {d \in inspections(v) : /\ docs[d].status = "ACCEPTED"
                            /\ docs[d].data["expiryDate"] # Null}
    \cup {d \in insurances(v) : /\ docs[d].status = "ACCEPTED"
                                /\ docs[d].data["endDate"] # Null}
    \cup {d \in pcoDocs(v) : /\ docs[d].status = "ACCEPTED"
                             /\ docs[d].data["expiryDate"] # Null}

Expiry(d) == IF docs[d].kind = "INSURANCE" THEN docs[d].data["endDate"]
                                           ELSE docs[d].data["expiryDate"]

\* getInternalDriverDocumentExpiry; sorting is left out.
DriverDocumentExpiry(p, h, r) ==
    LET all == UNION {Dated(v) : v \in LiveVehicles(p)}
        Bucket(b) == {[doc |-> d, vehicle |-> docs[d].vehicle,
                       days |-> daysUntilExpiry(Expiry(d), r),
                       reviewStatus |-> "ACCEPTED"] :
                        d \in {d \in all : classifyExpiryBucket(Expiry(d), r, h) = b}}
    IN [expired |-> Bucket("expired"), expiringSoon |-> Bucket("expiringSoon")]

\* Mutant: one of the three alternatives has lost its status.
ExpiredVehiclesAnyInsurance(r) ==
    {v \in Vehicles : Live(v) /\
        \/ \E d \in inspections(v) :
              docs[d].status = "ACCEPTED" /\ Before(docs[d].data["expiryDate"], r)
        \/ \E d \in insurances(v) : Before(docs[d].data["endDate"], r)
        \/ \E d \in pcoDocs(v) :
              docs[d].status = "ACCEPTED" /\ Before(docs[d].data["expiryDate"], r)}

\* buildVehicleExpiredDocumentWhere
ExpiredVehicles(r) ==
    {v \in Vehicles : Live(v) /\
        \/ \E d \in inspections(v) :
              docs[d].status = "ACCEPTED" /\ Before(docs[d].data["expiryDate"], r)
        \/ \E d \in insurances(v) :
              docs[d].status = "ACCEPTED" /\ Before(docs[d].data["endDate"], r)
        \/ \E d \in pcoDocs(v) :
              docs[d].status = "ACCEPTED" /\ Before(docs[d].data["expiryDate"], r)}

\* buildVehicleExpiringDocumentWhere
ExpiringVehicles(r, horizon) ==
    {v \in Vehicles : Live(v) /\
        \/ \E d \in inspections(v) :
              /\ docs[d].status = "ACCEPTED"
              /\ Within(docs[d].data["expiryDate"], r, horizon)
        \/ \E d \in insurances(v) :
              /\ docs[d].status = "ACCEPTED"
              /\ Within(docs[d].data["endDate"], r, horizon)
        \/ \E d \in pcoDocs(v) :
              /\ docs[d].status = "ACCEPTED"
              /\ Within(docs[d].data["expiryDate"], r, horizon)}

ExpiredDocumentDriverIds(r) == {DriverOf[v] : v \in ExpiredVehicles(r)}

Clamp(h) == IF h < 1 THEN 1 ELSE IF h > 90 THEN 90 ELSE h
ExpiringDocumentDriverIds(h, r) ==
    {DriverOf[v] : v \in ExpiringVehicles(r, r + Days(Clamp(h)))}

normalizeToReviewStatus(status) ==
    CASE status \in {"APPROVED", "ACCEPTED", "ACTIVE"} -> "ACCEPTED"
      [] status = "REJECTED" -> "REJECTED"
      [] OTHER -> "PENDING"

\* getInternalDriverVehicleDocumentStatus: permission letters and schedules
\* only while they are asked for.
DriverDocumentStatus(p) ==
    {[doc |-> d, vehicle |-> docs[d].vehicle,
      reviewStatus |-> normalizeToReviewStatus(docs[d].status)] :
        d \in {d \in Docs :
                /\ Exists(d) /\ docs[d].vehicle \in LiveVehicles(p)
                /\ docs[d].kind \in {"PERMISSION_LETTER", "SCHEDULE"}
                     => docs[d].vehicle \in optional}}

(***************************************************************************)
(* adminListVehicles.  A query says whether there is a search, which       *)
(* vehicles it matches, which drivers user-service finds for all of it and *)
(* for each of its words, and what isExpired asks for.                     *)
(***************************************************************************)
Query == [search : BOOLEAN, hits : SUBSET Vehicles, all : SUBSET Drivers,
          words : SUBSET SUBSET Drivers, isExpired : BOOLEAN \cup {Null}]

\* Those that every word finds; if there are none, those that any finds.
fetchDriverIdsByName(q) ==
    LET every == {p \in Drivers : \A w \in q.words : p \in w}
    IN IF ~q.search THEN {}
       ELSE IF Cardinality(q.words) <= 1 THEN q.all
       ELSE IF every # {} THEN every ELSE q.all \cup UNION q.words

\* isExpired = TRUE replaces the alternatives of the search by its own; the
\* drivers found by name are one more alternative.
adminListVehicles(q) ==
    LET names == fetchDriverIdsByName(q)
        base == IF q.isExpired = TRUE THEN ExpiredVehicles(now) ELSE q.hits
    IN {v \in Vehicles :
          /\ Live(v)
          /\ q.isExpired = TRUE \/ q.search => v \in base \/ DriverOf[v] \in names
          /\ q.isExpired = FALSE => v \notin ExpiredVehicles(now)}

ASSUME QueriesAssumption == Queries \subseteq Query

Everything == [search |-> FALSE, hits |-> {}, all |-> {}, words |-> {},
               isExpired |-> Null]

----------------------------------------------------------------------------
\* Rows hold what the columns of their kind hold, payloads what clients and
\* toPayloadDateString write.
TypeOK ==
    /\ docs \in [Docs -> Row \cup {Null}]
    /\ DOMAIN requests = Docs /\ DOMAIN sent = Docs
    /\ \A d \in Docs : Waiting(d) =>
          docs[d] # Null /\ requests[d] \in Payload(docs[d].kind)
    /\ archived \subseteq Vehicles /\ optional \subseteq Vehicles
    /\ now \in Time /\ events \in 0..MaxEvents

\* Five reads decide by themselves, in code or in a query, which documents
\* count, and agree at every moment: the drivers with expired and with soon
\* expiring documents are those whose expiry read names some, the vehicles
\* listed as expired are those of the documents named as past their date,
\* the others are listed as not expired, and that list is never widened to
\* an expired one by a search; and the documents named as past their date
\* are those the review statuses show as accepted with such a date.
ExpiryReadsAgree ==
    /\ \A p \in Drivers, h \in Horizons :
          LET read == DriverDocumentExpiry(p, h, now)
              past == {i.vehicle : i \in read.expired}
              shown == {s \in DriverDocumentStatus(p) :
                          /\ docs[s.doc].kind \in ExpiringKinds
                          /\ Before(Expiry(s.doc), now)
                          /\ s.reviewStatus = "ACCEPTED"}
              Listed(expired) ==
                 adminListVehicles([Everything EXCEPT !.isExpired = expired])
          IN /\ read.expired # {} <=> p \in ExpiredDocumentDriverIds(now)
             /\ read.expiringSoon # {} <=> p \in ExpiringDocumentDriverIds(h, now)
             /\ \A v \in LiveVehicles(p) :
                   /\ v \in Listed(TRUE) <=> v \in past
                   /\ v \in Listed(FALSE) <=> v \notin past
             /\ {[doc |-> i.doc, vehicle |-> i.vehicle,
                  reviewStatus |-> i.reviewStatus] : i \in read.expired} = shown
    /\ \A q \in Queries : q.isExpired = FALSE =>
          \A v \in adminListVehicles(q), h \in Horizons :
             \A i \in DriverDocumentExpiry(DriverOf[v], h, now).expired : i.vehicle # v

\* No document expires unannounced: a driver whom time alone moves to the
\* drivers with expired documents was until then among those with documents
\* that expire within a day.
ExpiryIsForeseen ==
    [][now' # now =>
         ExpiredDocumentDriverIds(now)' \ ExpiredDocumentDriverIds(now)
            \subseteq ExpiringDocumentDriverIds(1, now)]_vars

\* The days shown for a document are the least number of whole days after
\* which it is at or past its date, also for a date with a time of day and
\* for a document that is past its date already.
DaysAreExact ==
    \A p \in Drivers, h \in Horizons :
        LET read == DriverDocumentExpiry(p, h, now)
        IN \A i \in read.expired \cup read.expiringSoon :
              /\ Expiry(i.doc) <= now + Days(i.days)
              /\ Expiry(i.doc) > now + Days(i.days - 1)

Named(f, w) == IF f \in DateFields /\ w # Null THEN w.at ELSE w
\* What a column means to its readers: the day of a date, the reference of a
\* document.
Content(f, x) == IF f \in DateFields /\ x # Null THEN Day(x)
                 ELSE IF f = "document" THEN pickMediaRef(x) ELSE x

\* Accepting a request writes what the driver sent, to the minute, in every
\* field that the driver sent with another day or value than the document
\* had, and nothing in a field that the driver did not send, however the
\* document was edited since.
AcceptKeepsTheRest ==
    [][\A d \in Docs : Accept(d) /\ sent[d] # Null =>
         \A f \in Fields(docs[d].kind) :
            LET x == docs'[d].data[f]
                dto == sent[d].dto
            IN /\ x # docs[d].data[f] => f \in DOMAIN dto /\ x = Named(f, dto[f])
               /\ f \in DOMAIN dto
                    /\ Content(f, Named(f, dto[f])) # Content(f, sent[d].about[f])
                    => x = Named(f, dto[f])]_vars

\* What the reviewer saw is what the document shows after the acceptance: in
\* the fields listed as changed, which alone are written, and in all fields
\* if no list was shown, be it missing, empty or of names unknown by now.
ReviewerSeesWhatIsApplied ==
    [][\A d \in Docs : Accept(d) =>
         LET shown == mapChangePayloadForResponse(docs[d].kind, requests[d])
         IN \A f \in Fields(docs[d].kind) :
               IF shown.changed = Null \/ f \in shown.changed
               THEN Content(f, docs'[d].data[f]) = Content(f, Named(f, shown.data[f]))
               ELSE docs'[d].data[f] = docs[d].data[f]]_vars

\* A submission is refused as no change exactly when its payload does not
\* differ from the document, and then the same fields sent as a direct
\* update would leave every day, reference and value as it is.
NoChangeIsNoChange ==
    \A d \in Docs : Exists(d) =>
        \A dto \in Dtos[docs[d].kind] :
            LET row == docs[d]
                payload == ProposeFor(row.kind, row.data, dto)
                direct == Overwrite(row.data, Columns(dto))
            IN /\ payload.changed = {} <=> ~Differs(Fields(row.kind), payload, row.data)
               /\ payload.changed = {} =>
                     \A f \in Fields(row.kind) : Content(f, direct[f]) = Content(f, row.data[f])
=============================================================================
