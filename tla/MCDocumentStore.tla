-------------------------- MODULE MCDocumentStore --------------------------
(***************************************************************************)
(* Three pages.  a sends an ETag, and so answers 304 from the second crawl  *)
(* on; b sends none and gets a small edit that adds a link; p is a file,   *)
(* not HTML.  The recrawl takes two pages at a time, one more than answer   *)
(* 304.                                                                     *)
(***************************************************************************)
EXTENDS DocumentStore

MCUrls == {"a", "b", "p"}
MCServes == [u \in MCUrls |-> CASE u = "a" -> <<"a1">>
                                [] u = "b" -> <<"b1", "b2">>
                                [] OTHER -> <<"p1">>]
MCContents == {"a1", "b1", "b2", "p1"}
MCClass == [c \in MCContents |-> CASE c = "a1" -> 1 [] c = "p1" -> 0 [] OTHER -> 2]
MCLinks == [c \in MCContents |-> IF c = "b2" THEN {"p"} ELSE {}]
=============================================================================
