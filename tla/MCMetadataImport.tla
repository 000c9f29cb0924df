--------------------------- MODULE MCMetadataImport ---------------------------
(* Instances of MetadataImport for TLC. *)
EXTENDS MetadataImport

Meta(title, cover, year, authors, links, tags) ==
    [f \in Fields |->
        CASE f = "title" -> title [] f = "cover" -> cover [] f = "year" -> year
          [] f = "authors" -> authors [] f = "links" -> links [] OTHER -> tags]

\* The manga is read from provider A, which B does not serve.
Manga == Meta("t0", "c0", "y0", {"a0"}, {"l0"}, {"g0"})
BoundToA == {<<"A", 1>>}
ReadsA == <<"A", 1>>

\* A offers the manga itself with a new cover and reading mode, B the same
\* title with other authors, without a cover and without a year.
Offers ==
    [r \in Refs |->
        IF r[1] = "A"
        THEN [meta |-> Meta("t1", "c1", "y1", {"a0"}, {"l1"}, {"g1"}), mode |-> "ltr"]
        ELSE [meta |-> Meta("t0", "", "", {"a2"}, {}, {}), mode |-> ""]]

\* Another manga of the library: no cover, an author and a binding of its own.
OtherManga ==
    [meta |-> Meta("t3", "", "y3", {"a3"}, {"l3"}, {"g0"}), mode |-> "rtl",
     providers |-> {<<"B", 1>>}]
=============================================================================
