--------------------------- MODULE MCCrawlEngine ---------------------------
(***************************************************************************)
(* A small site for the single-node engine.  Seeds a, the root page, and b; *)
(* c is one click from b and d one click from a and two from b, so d can be *)
(* found at two depths; e is a document that is not HTML; x is on another   *)
(* domain; l is too long; r redirects to c; d is a near-duplicate of b and  *)
(* of c.                                                                    *)
(*                                                                          *)
(* The pages spell their links in the ways normalize_url must collapse: in  *)
(* capitals, relative to the page or to a <base>, percent-encoded, with a   *)
(* fragment or a tracking parameter.                                        *)
(***************************************************************************)
EXTENDS CrawlEngine, UrlUtils

MCUrls == {"a", "b", "c", "d", "e", "x", "l", "r"}
MCSeeds == {"a", "b"}
MCTooLong == {"l"}

MCLinks ==
    [u \in MCUrls |-> CASE u = "a" -> {"d", "x", "l"}
                        [] u = "b" -> {"c"}
                        [] u = "c" -> {"a", "d", "e"}
                        [] OTHER -> {}]

\* The same site, with r linked from a too.
MCLinksRedirect == [MCLinks EXCEPT !["a"] = {"d", "r", "x", "l"}]

MCCanon == [u \in MCUrls |-> IF u = "r" THEN "c" ELSE u]

MCDomain == [u \in MCUrls |-> IF u = "x" THEN "other" ELSE "site"]

-----------------------------------------------------------------------------
(* The same site as normalize_url and parse_page see it                     *)

MCNames == {"http", "HTTP", "mailto", "site", "Site", "other"}
MCLower == [n \in MCNames \cup {Empty} |->
               CASE n = "HTTP" -> "http" [] n = "Site" -> "site" [] OTHER -> n]
MCEncoded == [n \in MCNames |-> MCLower[n]]
MCPaths == MCUrls \cup {"./d", "%63", "%2563", "e/.."}
MCQuoted == [p \in MCPaths \cup {Empty} |->
                CASE p = Empty -> "a" [] p = "%2563" -> "%63" [] p = "%63" -> "c" [] OTHER -> p]
MCCleaned == [q \in {"utm", "id", Empty} |-> IF q = "utm" THEN Empty ELSE q]
MCJoined == [b \in MCPaths \cup {Empty} |->
                [p \in MCPaths |-> CASE p = "./d" -> "d" [] p = "e/.." -> "a" [] OTHER -> p]]
MCRegistered == [n \in MCNames |-> IF n = "site" THEN "site" ELSE Empty]

\* The normalised URL of each page.
Address(u) ==
    [scheme |-> "http", host |-> IF u = "x" THEN "other" ELSE "site", path |-> u,
     query |-> Empty, frag |-> FALSE]

Full(scheme, host, path) ==
    [scheme |-> scheme, host |-> host, path |-> path, query |-> "utm", frag |-> FALSE]
Relative(path) ==
    [scheme |-> Empty, host |-> Empty, path |-> path, query |-> Empty, frag |-> TRUE]

RawSeeds == {Full("HTTP", "Site", Empty), Address("b"), Full("mailto", Empty, "x"), Relative("c")}

Anchors(u) ==
    CASE u = "a" -> {Relative("./d"), Address("d"), Full("http", "other", "x"), Relative("l"),
                     Relative(Empty), Full("mailto", Empty, "x"), Relative("r")}
      [] u = "b" -> {Full("HTTP", "site", "%63"), Relative("c")}
      [] u = "c" -> {Relative("e/.."), Full(Empty, "Site", "d"), Relative("e")}
      [] OTHER -> {}
Site(u) ==
    [base |-> IF u = "c" THEN Full(Empty, "Site", Empty) ELSE NoUrl,
     anchors |-> Anchors(u)]

Parsed(u) == parse_page(Address(u), Site(u))

\* The engine is given what the parser finds: no spelling makes a second page, and none
\* is lost.
ASSUME SiteIsParsed ==
    /\ {normalize_url(s, NoUrl) : s \in RawSeeds} \ {NoUrl} = {Address(u) : u \in MCSeeds}
    /\ \A u \in MCUrls :
          /\ Parsed(u) = {Address(v) : v \in MCLinksRedirect[u]}
          /\ MCDomain[u] = registered_domain(Address(u))

\* The libraries of this site are none that normalising again leaves alone: a path that
\* was quoted twice takes two passes to become that of c (url_utils.py:60-61).
ASSUME QuotedTwice ==
    LET once == normalize_url(Full("http", "site", "%2563"), NoUrl)
    IN  once \in Keys /\ once # Address("c") /\ normalize_url(once, NoUrl) = Address("c")

-----------------------------------------------------------------------------
(* What the pages say                                                       *)

\* A text of one word with the given bits.
Word(bits) == {<<bits, 1>>}

\* d is within one bit of b and of c, which are two bits apart.
MCText ==
    [u \in MCUrls |-> CASE u = "a" -> Word({1, 2, 3})
                        [] u = "b" -> Word({0})
                        [] u \in {"c", "r"} -> Word({4})
                        [] u = "d" -> {<<{0, 4}, 1>>, <<{0, 4}, 2>>, <<{1}, 1>>}
                        [] u = "l" -> Word({0, 1, 4, 5})
                        [] OTHER -> NotHtml]

\* Every page is distinct: no near-duplicates.
MCTextDistinct == [MCText EXCEPT !["d"] = Word({2, 3, 5})]
=============================================================================
