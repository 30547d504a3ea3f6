--------------------------- MODULE MCDocumentExpiry ---------------------------
\* Instances of DocumentExpiry for TLC: two drivers with a vehicle each, two
\* documents, three days of two ticks.
EXTENDS DocumentExpiry

CONSTANTS v1, v2, p1, p2, d1, d2, m1, m2, l1

MadeOf == [x \in Legacy |-> m1]

Owner == [v \in Vehicles |-> IF v = v1 THEN p1 ELSE p2]

\* A document with the same instant in all of its dates.
Doc(kind, vehicle, status, date, media) ==
    [kind |-> kind, vehicle |-> vehicle, status |-> status,
     data |-> [f \in Fields(kind) |->
                 IF f \in DateFields THEN date
                 ELSE IF f = "document" THEN media ELSE Null]]

\* One accepted document of each kind, its dates with a time of day and its
\* file reference of an old form, beside another vehicle's insurance, which
\* is not accepted yet; and one document alone.
SomeDocs ==
    {[d \in Docs |-> IF d = d1 THEN x ELSE Doc("INSURANCE", v2, "PENDING", 2, m1)] :
        x \in {Doc(k, v1, "ACCEPTED", 3, l1) : k \in Kinds}}
    \cup {[d \in Docs |-> IF d = d1 THEN Doc("PCO_DOCUMENT", v1, "ACCEPTED", 3, m1)
                                      ELSE Null]}

Midnight(t) == [form |-> "date", at |-> t]
AtTime(t) == [form |-> "datetime", at |-> t]
SomeOffers == {Null, Midnight(2), AtTime(3)}

SomeQueries ==
    {[search |-> s.search, hits |-> s.hits, all |-> s.all, words |-> s.words,
      isExpired |-> e] :
        e \in BOOLEAN \cup {Null},
        s \in {[search |-> FALSE, hits |-> {}, all |-> {}, words |-> {}],
               [search |-> TRUE, hits |-> {v1}, all |-> {}, words |-> {{}}],
               [search |-> TRUE, hits |-> {}, all |-> {p2}, words |-> {{p2}}],
               [search |-> TRUE, hits |-> {v2}, all |-> {},
                words |-> {{p1}, {p1, p2}}],
               [search |-> TRUE, hits |-> {}, all |-> {}, words |-> {{p1}, {p2}}]}}
=============================================================================
