------------------------------ MODULE UrlUtils ------------------------------
(***************************************************************************)
(* URL normalisation (url_utils.py) and the links of a page                 *)
(* (parser/html_parser.py), as functions of the parts of a URL.             *)
(*                                                                          *)
(* An href is the record of the parts urlsplit finds in it; a part that is  *)
(* absent is Empty, and so "" has no part at all and "#top" only a          *)
(* fragment.  Letter case, percent-encoding, the cleaning of a query, path  *)
(* resolution and the public-suffix list are the libraries': constants, of  *)
(* which only the host's spelling is taken to be stable.  In particular     *)
(* quoting a path or cleaning a query again may change it again: w3lib      *)
(* unquotes /%2525 to /%25 and that to /%, and url_query_cleaner compares   *)
(* names before canonicalize_url decodes them.  A host is taken with its    *)
(* port and without user information.                                       *)
(***************************************************************************)
CONSTANTS
    Names,       \* schemes and hosts, in any case
    Paths,
    Queries,
    Web,         \* {"http", "https"}
    Skipped,     \* the schemes of _SKIP_SCHEME_PREFIXES
    Lower,       \* str.lower
    Encoded,     \* canonicalize_url: a host in IDNA and lower case
    Quoted,      \* canonicalize_url: percent-encoding of a path
    Cleaned,     \* url_query_cleaner with TRACKING_PARAMS, then canonicalize_url: a query
    Refused,     \* the URLs for which one of the two raises
    Joined,      \* Joined[b][p]: urljoin's resolution of path p against path b
    Registered,  \* tldextract: registrable domain of a lower-case host, or Empty
    Empty,
    NoUrl        \* None

Href == [scheme : Names \cup {Empty}, host : Names \cup {Empty},
         path : Paths \cup {Empty}, query : Queries \cup {Empty}, frag : BOOLEAN]

\* A page as parse_page reads it: the href of its <base>, or NoUrl, and of its anchors.
Page == [base : Href \cup {NoUrl}, anchors : SUBSET Href]

ASSUME PartsAssumption ==
    /\ Empty \notin Names \cup Paths \cup Queries /\ NoUrl \notin Href
    /\ Web \subseteq Names /\ Skipped \subseteq Names \ Web
ASSUME LibrariesAssumption ==
    /\ Lower \in [Names \cup {Empty} -> Names \cup {Empty}]
    /\ Lower[Empty] = Empty
    /\ \A n \in Web \cup Skipped : Lower[n] = n
    /\ Encoded \in [Names -> Names]
    /\ \A n \in Names : Encoded[Encoded[n]] = Encoded[n] /\ Lower[Encoded[n]] = Encoded[n]
    /\ Quoted \in [Paths \cup {Empty} -> Paths]
    /\ Cleaned \in [Queries \cup {Empty} -> Queries \cup {Empty}]
    /\ Joined \in [Paths \cup {Empty} -> [Paths -> Paths]]
    /\ Registered \in [Names -> Names \cup {Empty}]

-----------------------------------------------------------------------------
\* The href is empty, or a fragment of the page it is on.
Blank(href) ==
    /\ href.scheme = Empty /\ href.host = Empty
    /\ href.path = Empty /\ href.query = Empty

\* urljoin: what href means on a page at base; it writes a scheme in lower case.
Join(base, href) ==
    IF Lower[href.scheme] \notin {Empty, Lower[base.scheme]}
    THEN href
    ELSE IF href.host # Empty
    THEN [href EXCEPT !.scheme = Lower[base.scheme]]
    ELSE [scheme |-> Lower[base.scheme],
          host |-> base.host,
          path |-> IF href.path = Empty THEN base.path ELSE Joined[base.path][href.path],
          query |-> IF href.path = Empty /\ href.query = Empty THEN base.query ELSE href.query,
          frag |-> href.frag]

\* url_query_cleaner and canonicalize_url.
Canonical(url) ==
    [scheme |-> Lower[url.scheme],
     host |-> Encoded[url.host],
     path |-> Quoted[url.path],
     query |-> Cleaned[url.query],
     frag |-> FALSE]

Crawlable(url) == Lower[url.scheme] \in Web /\ url.host # Empty

normalize_url(href, base) ==
    LET url == IF base = NoUrl THEN href ELSE Join(base, href)
    IN  IF \/ Blank(href) \/ Lower[href.scheme] \in Skipped
           \/ ~Crawlable(url) \/ url \in Refused
        THEN NoUrl
        ELSE Canonical(url)

host_of(url) == Lower[url.host]

registered_domain(url) ==
    IF host_of(url) # Empty /\ Registered[host_of(url)] # Empty
    THEN Registered[host_of(url)]
    ELSE host_of(url)

\* Relative links are resolved against the page's <base>, itself relative to the page.
LinkBase(url, page) == IF page.base = NoUrl THEN url ELSE Join(url, page.base)

\* The normalised links of a page, each once.
parse_page(url, page) ==
    {normalize_url(href, LinkBase(url, page)) : href \in page.anchors} \ {NoUrl}

-----------------------------------------------------------------------------
(* What the rest of the crawler relies on                                   *)

\* An absolute http(s) URL without a fragment whose scheme and host are in the one
\* spelling that canonicalize_url gives them.
Keys ==
    {url \in Href : /\ url.scheme \in Web /\ url.host # Empty /\ ~url.frag
                    /\ Encoded[url.host] = url.host /\ Lower[url.host] = url.host}
=============================================================================
