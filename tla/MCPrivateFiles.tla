---------------------------- MODULE MCPrivateFiles ----------------------------
\* Instances of PrivateFiles for TLC: two uploads, two columns.
EXTENDS PrivateFiles

CONSTANTS u1, u2, c1, c2

Public(u) == [id |-> u, form |-> "public"]
Bare(u) == [id |-> u, form |-> "bare"]

\* What two columns may hold, up to the names of the columns and the uploads:
\* one file in one column or in both, two files, and old bare references.
\* A handler may empty a column, so every other pair is soon reached too.
SomePairs ==
    {[c \in Columns |-> IF c = c1 THEN p[1] ELSE p[2]] : p \in
        {<<Null, Public(u1)>>, <<Public(u1), Public(u1)>>,
         <<Public(u1), Public(u2)>>, <<Public(u1), Bare(u1)>>,
         <<Bare(u1), Bare(u2)>>}}
=============================================================================
