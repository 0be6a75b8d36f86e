---------------------------- MODULE UrlShortener ----------------------------
(* The URL shortener: ShortenerService and its HTTP routes, over a mapping  *)
(* in MongoDB, whose _id is unique, a cache in Redis, and a click log that  *)
(* may be down.  Requests are served side by side; every one of the stores  *)
(* may fail a call, and lose the reply to a write that it has carried out.  *)
(* Custom aliases and generated codes share one namespace.                  *)
EXTENDS Naturals

CONSTANTS
  Codes,      \* codes and aliases
  Urls,       \* long URLs
  Requests,   \* requests under way at once
  MaxRetries  \* codes that shorten tries

NoUrl == "none"

ASSUME ShortenerAssumption == MaxRetries \in Nat \ {0} /\ NoUrl \notin Urls

VARIABLES
  mapping,    \* mapping[c]: the URL stored under code c
  cache,      \* cache[c]: the URL cached for it
  request,    \* request[r]: what request r is at
  given       \* history: <<code, url>> of every 201

shortenerVars == <<mapping, cache, request, given>>

ShortenerInit ==
  /\ mapping = [c \in Codes |-> NoUrl]
  /\ cache = [c \in Codes |-> NoUrl]
  /\ request = [r \in Requests |-> [at |-> "idle"]]
  /\ given = {}

Doing(r, step) == request[r].at = step
Becomes(r, to) == request' = [request EXCEPT ![r] = to]
Goes(r, step) == request' = [request EXCEPT ![r].at = step]

\* A call to a store fails: 500.
Raises(r) == Becomes(r, [at |-> "raised"])

-----------------------------------------------------------------------------
(* POST /shorten *)

Shorten(r) ==
  /\ Doing(r, "idle")
  /\ \E url \in Urls, code \in Codes, alias \in BOOLEAN :
       Becomes(r, [at |-> "insert", url |-> url, code |-> code, alias |-> alias, try |-> 1])
  /\ UNCHANGED <<mapping, cache, given>>

\* Mutant: an upsert in place of insert_one.
VacantUpsert(c) == TRUE

Vacant(c) == mapping[c] = NoUrl

Insert(r) ==
  /\ Doing(r, "insert") /\ Vacant(request[r].code)
  /\ mapping' = [mapping EXCEPT ![request[r].code] = request[r].url]
  /\ \/ /\ Goes(r, "created")
        /\ given' = given \cup {<<request[r].code, request[r].url>>}
     \/ Raises(r) /\ UNCHANGED given
  /\ UNCHANGED cache

\* DuplicateKeyError: 409 for an alias, another code otherwise.
Duplicate(r) ==
  /\ Doing(r, "insert") /\ ~Vacant(request[r].code)
  /\ \/ request[r].alias /\ Goes(r, "taken")
     \/ ~request[r].alias /\ request[r].try = MaxRetries /\ Raises(r)
     \/ /\ ~request[r].alias /\ request[r].try < MaxRetries
        /\ \E code \in Codes :
             Becomes(r, [request[r] EXCEPT !.code = code, !.try = @ + 1])
  /\ UNCHANGED <<mapping, cache, given>>

-----------------------------------------------------------------------------
(* GET /<code> *)

Follow(r) ==
  /\ Doing(r, "idle")
  /\ \E code \in Codes :
       Becomes(r, [at |-> "get", code |-> code, due |-> {p[2] : p \in {q \in given : q[1] = code}}])
  /\ UNCHANGED <<mapping, cache, given>>

Found(r, step, url) ==
  Becomes(r, [at |-> step, code |-> request[r].code, due |-> request[r].due, url |-> url])

Get(r) ==
  /\ Doing(r, "get")
  /\ \/ cache[request[r].code] # NoUrl /\ Found(r, "click", cache[request[r].code])
     \/ cache[request[r].code] = NoUrl /\ Goes(r, "lookup")
  /\ UNCHANGED <<mapping, cache, given>>

LookUp(r) ==
  /\ Doing(r, "lookup")
  /\ \/ mapping[request[r].code] # NoUrl /\ Found(r, "set", mapping[request[r].code])
     \/ mapping[request[r].code] = NoUrl /\ Goes(r, "unknown")
  /\ UNCHANGED <<mapping, cache, given>>

Set(r) ==
  /\ Doing(r, "set")
  /\ cache' = [cache EXCEPT ![request[r].code] = request[r].url]
  /\ Goes(r, "click") \/ Raises(r)
  /\ UNCHANGED <<mapping, given>>

\* log_click is waited for, and whatever it raises is swallowed.
Click(r) ==
  /\ Doing(r, "click") /\ Goes(r, "redirected")
  /\ UNCHANGED <<mapping, cache, given>>

-----------------------------------------------------------------------------

StoreFails(r) ==
  /\ request[r].at \in {"insert", "get", "lookup", "set"} /\ Raises(r)
  /\ UNCHANGED <<mapping, cache, given>>

Answered(r) ==
  /\ request[r].at \in {"created", "taken", "raised", "unknown", "redirected"}
  /\ Becomes(r, [at |-> "idle"])
  /\ UNCHANGED <<mapping, cache, given>>

\* The entry's TTL is over, or Redis evicts it.
CacheLoses(c) ==
  /\ cache[c] # NoUrl /\ cache' = [cache EXCEPT ![c] = NoUrl]
  /\ UNCHANGED <<mapping, request, given>>

ShortenerNext ==
  \/ \E r \in Requests :
       \/ Shorten(r) \/ Insert(r) \/ Duplicate(r)
       \/ Follow(r) \/ Get(r) \/ LookUp(r) \/ Set(r) \/ Click(r)
       \/ StoreFails(r) \/ Answered(r)
  \/ \E c \in Codes : CacheLoses(c)

ShortenerSpec == ShortenerInit /\ [][ShortenerNext]_shortenerVars

-----------------------------------------------------------------------------
\* However collisions, retries, failed stores and the cache interleave: a code
\* that somebody was told is given to nobody else, and from then on it leads
\* to that URL, or to an error of a store, but never elsewhere and never to
\* 404.
CodeKeepsUrl ==
  /\ \A p, q \in given : p[1] = q[1] => p = q
  /\ \A r \in Requests :
       /\ Doing(r, "redirected") => request[r].due \subseteq {request[r].url}
       /\ Doing(r, "unknown") => request[r].due = {}
=============================================================================
