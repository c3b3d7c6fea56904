------------------------------ MODULE MCPages -------------------------------
(* Small instances of Pages for TLC.                                       *)
EXTENDS Pages, TLC

CONSTANTS noText, hopeText, c1, c2, author, i1, i2, u1, u2, u3, p1, p2, p3, k1, k2, k3, k4,
          a1, a2, f1, f2

MCAuthorOf == (c1 :> author) @@ (c2 :> author)

\* The search leaves one page, or none with the other filter.
MCPagesOf ==
    [q \in Searches \X Filters |->
        IF q[1] = noText THEN 3 ELSE IF q[2] = AllStories THEN 2 ELSE 0]

\* One list has two pages, and shares a person with the other's.
MCListOf == (a1 :> <<{f1}, {f1, f2}>>) @@ (a2 :> <<{f2}>>)

Interchangeable ==
    Permutations({i1, i2}) \cup Permutations({u2, u3}) \cup Permutations({p1, p2, p3})
    \cup Permutations({k1, k2, k3, k4})

=============================================================================
