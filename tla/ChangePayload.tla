---------------------------- MODULE ChangePayload ----------------------------
(***************************************************************************)
(* The payload of a document change request: how a proposal is built from  *)
(* a document row and the fields a driver sent, which fields count as      *)
(* changed, and what an accepted payload writes.                           *)
(*                                                                         *)
(* A row holds instants, counted in ticks with TicksPerDay to the day.     *)
(* Clients write a date alone, or a date with a time; a payload holds      *)
(* dates as they were written, and for what the driver did not send the    *)
(* date alone of the row's instant.  Likewise a document column may hold   *)
(* an old form of a reference, of which a payload holds the new one.       *)
(***************************************************************************)
EXTENDS Integers, FiniteSets

CONSTANTS
    Texts,       \* types, providers, numbers
    Media,       \* file references as pickMediaRef returns them
    Legacy,      \* what old rows may hold in their place: a bare url, other keys
    ReferenceOf, \* the reference that pickMediaRef makes of it, or Null
    MaxTime,     \* bound on instants
    TicksPerDay,
    Null

ASSUME DayAssumption == TicksPerDay \in Nat \ {0} /\ MaxTime \in Nat
ASSUME NullAssumption == Null \notin Texts \cup Media \cup Legacy \cup Nat
ASSUME LegacyAssumption == /\ Legacy \cap Media = {}
                           /\ ReferenceOf \in [Legacy -> Media \cup {Null}]

Time == 0..MaxTime
Kinds == {"INSPECTION", "INSURANCE", "PCO_DOCUMENT",
          "PERMISSION_LETTER", "SCHEDULE", "LOG_BOOK_V5"}
ExpiringKinds == {"INSPECTION", "INSURANCE", "PCO_DOCUMENT"}

InspectionFields == {"inspectionType", "inspectionDate", "expiryDate", "document"}
InsuranceFields == {"provider", "policyNumber", "startDate", "endDate", "document"}
PcoDocumentFields ==
    {"badgeNumber", "licenseNumber", "issueDate", "expiryDate", "document"}
DocumentOnlyFields == {"document"}
Fields(kind) ==
    CASE kind = "INSPECTION" -> InspectionFields
      [] kind = "INSURANCE" -> InsuranceFields
      [] kind = "PCO_DOCUMENT" -> PcoDocumentFields
      [] OTHER -> DocumentOnlyFields
DateFields == {"inspectionDate", "expiryDate", "startDate", "endDate", "issueDate"}

\* What a column holds, and what may be written to it: of what a client
\* sends for a document, resolveFileRef makes a reference first.
Stored(f) ==
    {Null} \cup (IF f \in DateFields THEN Time
                 ELSE IF f = "document" THEN Media \cup Legacy ELSE Texts)
Day(t) == t - (t % TicksPerDay)
Dates == {[form |-> "date", at |-> t] : t \in {t \in Time : t = Day(t)}}
DateTimes == [form : {"datetime"}, at : Time]
Written(f) ==
    {Null} \cup (IF f \in DateFields THEN Dates \cup DateTimes
                 ELSE IF f = "document" THEN Media ELSE Texts)
ASSUME NullIsNoDate == Null \notin Dates \cup DateTimes

\* Mutant: the time of day is not cut off.
toPayloadDateStringUncut(t) ==
    IF t = Null THEN Null ELSE [form |-> "date", at |-> t]

toPayloadDateString(t) ==
    IF t = Null THEN Null ELSE [form |-> "date", at |-> Day(t)]

\* Mutant: a date that was sent with a time is stored as the day alone.
toPrismaDate(w) == IF w = Null THEN Null ELSE Day(w.at)

\* A date alone is midnight; null clears the column.
toPrismaDateTime(w) == IF w = Null THEN Null ELSE w.at

pickMediaRef(x) == IF x \in Legacy THEN ReferenceOf[x] ELSE x

ToColumn(f, w) == IF f \in DateFields THEN toPrismaDateTime(w) ELSE w
ToPayload(f, x) ==
    CASE f \in DateFields -> toPayloadDateString(x)
      [] f = "document" -> pickMediaRef(x)
      [] OTHER -> x

(***************************************************************************)
(* Every kind has the same functions over fields of its own.               *)
(***************************************************************************)

Build(fields, data, dto) ==
    [f \in fields |-> IF f \in DOMAIN dto THEN dto[f] ELSE ToPayload(f, data[f])]

Current(fields, data) == Build(fields, data, <<>>)

\* Mutant: every field that was sent counts as changed.
ChangedSent(fields, data, dto) == DOMAIN dto

Changed(fields, data, dto) ==
    LET current == Current(fields, data)
    IN {f \in DOMAIN dto : dto[f] # current[f]}

Propose(fields, data, dto) == [data |-> Build(fields, data, dto),
                               changed |-> Changed(fields, data, dto)]

\* The names in the stored list that are fields of the kind; without a list
\* there are none.
parseStoredChangedFields(fields, payload) ==
    IF payload.changed = Null THEN {} ELSE payload.changed \cap fields

\* Mutant: only listed fields are written, none if there is no list.
UpdateListed(fields, payload) ==
    [f \in parseStoredChangedFields(fields, payload) |-> ToColumn(f, payload.data[f])]

\* A partial update of the fields that the list names; an update of all if it
\* names none.
Update(fields, payload) ==
    LET listed == parseStoredChangedFields(fields, payload)
    IN [f \in IF listed = {} THEN fields ELSE listed |-> ToColumn(f, payload.data[f])]

\* *ChangePayloadDiffers, a second way to tell whether there is a change; the
\* submit* handlers go by the list of changed fields.
Differs(fields, payload, data) == payload.data # Current(fields, data)

ProposeInspection(data, dto) == Propose(InspectionFields, data, dto)
UpdateInspection(payload) == Update(InspectionFields, payload)
ProposeInsurance(data, dto) == Propose(InsuranceFields, data, dto)
UpdateInsurance(payload) == Update(InsuranceFields, payload)
ProposePcoDocument(data, dto) == Propose(PcoDocumentFields, data, dto)
UpdatePcoDocument(payload) == Update(PcoDocumentFields, payload)
ProposeDocumentOnly(data, dto) == Propose(DocumentOnlyFields, data, dto)
UpdateDocumentOnly(payload) == Update(DocumentOnlyFields, payload)

\* The submit* handlers of each kind.
ProposeFor(kind, data, dto) ==
    CASE kind = "INSPECTION" -> ProposeInspection(data, dto)
      [] kind = "INSURANCE" -> ProposeInsurance(data, dto)
      [] kind = "PCO_DOCUMENT" -> ProposePcoDocument(data, dto)
      [] OTHER -> ProposeDocumentOnly(data, dto)

Overwrite(data, update) ==
    [f \in DOMAIN data |-> IF f \in DOMAIN update THEN update[f] ELSE data[f]]

applyAcceptedPayload(kind, payload, data) ==
    Overwrite(data,
        CASE kind = "INSPECTION" -> UpdateInspection(payload)
          [] kind = "INSURANCE" -> UpdateInsurance(payload)
          [] kind = "PCO_DOCUMENT" -> UpdatePcoDocument(payload)
          [] OTHER -> UpdateDocumentOnly(payload))

\* What a reviewer is shown; no list if it names no field of the kind.
mapChangePayloadForResponse(kind, payload) ==
    LET listed == parseStoredChangedFields(Fields(kind), payload)
    IN [data |-> [f \in Fields(kind) |->
                    IF f = "document" THEN pickMediaRef(payload.data[f])
                                      ELSE payload.data[f]],
        changed |-> IF listed = {} THEN Null ELSE listed]
=============================================================================
