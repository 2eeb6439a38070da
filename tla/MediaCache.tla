----------------------------- MODULE MediaCache -----------------------------
(***************************************************************************)
(* internal/web/media.go and the handler mediaImage of handlers_api.go:    *)
(* previews fetched from Steam's image hosts for browsers that shall not   *)
(* go there themselves, kept in an LRU cache with a lifetime and a budget  *)
(* of bytes, fetched by a bounded number of handlers at a time.            *)
(*                                                                         *)
(* A URL is a record; the key of a preview is the URL without a fragment.  *)
(* A host is the sequence of its labels as IsAllowedMediaHost compares     *)
(* them: lower case, without a final dot; an IP address has no label of a  *)
(* suffix.  What a browser gets is [url, size, at]: the bytes of that URL  *)
(* as they were at Steam at the time "at".                                 *)
(***************************************************************************)
EXTENDS Naturals, Sequences, SequencesExt, FiniteSetsExt

CONSTANTS
    Viewers,       \* handlers
    Urls,          \* what browsers ask for
    HostSuffixes,  \* allowedHostSuffixes
    Sizes,         \* of previews
    MaxMedia,      \* maxMediaBytes (8 MiB)
    MaxPreviews,   \* mediaCacheMax (64)
    MaxBytes,      \* mediaCacheMaxBytes (32 MiB)
    Slots,         \* capacities of c.sem, maxMediaConcurrent (4) among them
    MediaTTL,      \* mediaCacheTTL (1 h)
    Timeout,       \* mediaTimeout (12 s)
    MaxAsks,       \* bound: requests
    MaxTime,       \* bound: of the clock
    None

MediaConstants ==
    /\ Sizes \subseteq Nat
    /\ MaxMedia \in Nat /\ MaxBytes \in Nat
    /\ MaxPreviews \in Nat \ {0}
    /\ Slots \subseteq Nat \ {0}
    /\ MediaTTL \in Nat \ {0} /\ Timeout \in Nat \ {0}
    /\ MaxAsks \in Nat /\ MaxTime \in Nat

VARIABLES
    now,
    order,    \* the entries, least recently used first; data is its index
    bytes,    \* c.bytes
    slots,    \* cap(c.sem)
    sem,      \* tokens in c.sem
    pc,       \* pc[v]: where the handler stands
    key,      \* key[v]: the URL it fetches
    body,     \* body[v]: what Steam sends it
    deadline, \* deadline[v]: of its fetch
    shown,    \* shown[v]: what its browser got: a body, or None: an error
    asks      \* requests so far

vars == <<now, order, bytes, slots, sem, pc, key, body, deadline, shown, asks>>
handler == <<pc, key, body, deadline, shown>>

Holding == {"again", "fetch", "read", "put"}

-----------------------------------------------------------------------------
(* ValidateMediaURL. *)

Allowed(host) == \E suf \in HostSuffixes : IsSuffix(suf, host)

ValidateMediaURL(u) ==
    IF u.scheme \in {"http", "https"} /\ ~u.user /\ Allowed(u.host)
      THEN [u EXCEPT !.fragment = ""]
      ELSE None

Keys == {ValidateMediaURL(u) : u \in Urls} \ {None}

Bodies == [url : Keys, size : Sizes, at : 0 .. MaxTime]

TypeOK ==
    /\ now \in 0 .. MaxTime
    /\ Range(order) \subseteq
          [key : Keys, body : Bodies, expires : 0 .. MaxTime + MediaTTL]
    /\ bytes \in Nat
    /\ slots \in Slots
    /\ sem \in 0 .. slots
    /\ pc \in [Viewers -> {"idle", "look", "wait"} \cup Holding]
    /\ key \in [Viewers -> Keys \cup {None}]
    /\ body \in [Viewers -> Bodies \cup {None}]
    /\ deadline \in [Viewers -> 0 .. MaxTime + Timeout]
    /\ shown \in [Viewers -> Bodies \cup {None}]
    /\ asks \in 0 .. MaxAsks

Init ==
    /\ now = 0
    /\ order = <<>> /\ bytes = 0
    /\ slots \in Slots /\ sem = 0
    /\ pc = [v \in Viewers |-> "idle"]
    /\ key = [v \in Viewers |-> None]
    /\ body = [v \in Viewers |-> None]
    /\ deadline = [v \in Viewers |-> 0]
    /\ shown = [v \in Viewers |-> None]
    /\ asks = 0

-----------------------------------------------------------------------------
(* The cache. *)

Find(k) == {i \in DOMAIN order : order[i].key = k}
Place(k) == CHOOSE i \in Find(k) : TRUE
Entry(k) == order[Place(k)]

Hit(k) == Find(k) # {} /\ Entry(k).expires > now

Removed(k) == IF Find(k) = {} THEN order ELSE RemoveAt(order, Place(k))

Touch(k) == Append(Removed(k), Entry(k))

\* get: a hit moves to the back, an expired entry is removed.
Get(k) ==
    \/ /\ Hit(k)
       /\ order' = Touch(k)
       /\ UNCHANGED bytes
    \/ /\ Find(k) # {} /\ ~Hit(k)
       /\ order' = Removed(k)
       /\ bytes' = bytes - Entry(k).body.size
    \/ /\ Find(k) = {}
       /\ UNCHANGED <<order, bytes>>

\* Entries differ in their keys: their set has as many.
Size(q) == MapThenSumSet(LAMBDA e : e.body.size, Range(q))

FirstOf(q, n) == SubSeq(q, 1, n)
Rest(q, n) == SubSeq(q, n + 1, Len(q))

\* evictLocked: so many go from the front, by what the counter says.
Evicted(q, total) ==
    CHOOSE n \in 0 .. Len(q) :
        LET Stops(m) == \/ m = Len(q)
                        \/ /\ Len(q) - m <= MaxPreviews
                           /\ total - Size(FirstOf(q, m)) <= MaxBytes
        IN  Stops(n) /\ \A m \in 0 .. n - 1 : ~Stops(m)

\* Mutant: the bytes of the entry that is replaced are not given back.
ReplacedKept(k) == 0

Replaced(k) == IF Find(k) = {} THEN 0 ELSE Entry(k).body.size

Put(k, b) ==
    LET q == Append(Removed(k),
                    [key |-> k, body |-> b, expires |-> now + MediaTTL])
        total == bytes - Replaced(k) + b.size
        n == Evicted(q, total)
    IN  /\ order' = Rest(q, n)
        /\ bytes' = total - Size(FirstOf(q, n))

-----------------------------------------------------------------------------
(* Fetch, and mediaImage around it. *)

\* Mutant: a fetch that failed keeps its token.
SlotsKept(v) == IF shown'[v] = None THEN sem ELSE sem - 1

\* The deferred receive from c.sem.
SlotsLeft(v) == IF pc[v] \in Holding THEN sem - 1 ELSE sem

Respond(v, answer) ==
    /\ shown' = [shown EXCEPT ![v] = answer]
    /\ pc' = [pc EXCEPT ![v] = "idle"]
    /\ key' = [key EXCEPT ![v] = None]
    /\ body' = [body EXCEPT ![v] = None]
    /\ deadline' = [deadline EXCEPT ![v] = 0]
    /\ sem' = SlotsLeft(v)

Go(v, place) == pc' = [pc EXCEPT ![v] = place]

Ask(v, u) ==
    /\ pc[v] = "idle"
    /\ asks < MaxAsks
    /\ asks' = asks + 1
    /\ LET k == ValidateMediaURL(u)
       IN  IF k = None
             THEN Respond(v, None)
             ELSE /\ key' = [key EXCEPT ![v] = k]
                  /\ Go(v, "look")
                  /\ shown' = [shown EXCEPT ![v] = None]
                  /\ UNCHANGED <<sem, body, deadline>>
    /\ UNCHANGED <<now, order, bytes, slots>>

\* The first look goes on to wait for a token, the second one to fetch.
Look(v) ==
    /\ pc[v] \in {"look", "again"}
    /\ Get(key[v])
    /\ IF Hit(key[v])
         THEN Respond(v, Entry(key[v]).body)
         ELSE /\ Go(v, IF pc[v] = "look" THEN "wait" ELSE "fetch")
              /\ deadline' = [deadline EXCEPT
                                 ![v] = IF pc[v] = "again" THEN now + Timeout
                                        ELSE 0]
              /\ UNCHANGED <<sem, key, body, shown>>
    /\ UNCHANGED <<now, slots, asks>>

Acquire(v) ==
    /\ pc[v] = "wait"
    /\ sem < slots
    /\ sem' = sem + 1
    /\ Go(v, "again")
    /\ UNCHANGED <<now, order, bytes, slots, key, body, deadline, shown, asks>>

\* The headers arrive: status and content type are good.
Answers(v, s) ==
    /\ pc[v] = "fetch"
    /\ body' = [body EXCEPT ![v] = [url |-> key[v], size |-> s, at |-> now]]
    /\ Go(v, "read")
    /\ UNCHANGED <<now, order, bytes, slots, sem, key, deadline, shown, asks>>

\* The whole body was read, and is not too long.
BodyRead(v) ==
    /\ pc[v] = "read"
    /\ body[v].size <= MaxMedia
    /\ Go(v, "put")
    /\ UNCHANGED <<now, order, bytes, slots, sem, key, body, deadline, shown, asks>>

\* No connection, another status or type, a body that is cut off or too long.
FetchFails(v) ==
    /\ pc[v] \in {"fetch", "read"}
    /\ Respond(v, None)
    /\ UNCHANGED <<now, order, bytes, slots, asks>>

Store(v) ==
    /\ pc[v] = "put"
    /\ Put(key[v], body[v])
    /\ Respond(v, body[v])
    /\ UNCHANGED <<now, slots, asks>>

\* The context of the fetch ends; the end of the bounded clock stands for the
\* deadlines beyond it.
Expired(v) == pc[v] \in {"fetch", "read"} /\ (now = deadline[v] \/ now = MaxTime)

TimesOut(v) == Expired(v) /\ FetchFails(v)

\* The deadline is kept; looking and storing take no time to speak of.
Tick ==
    /\ now < MaxTime
    /\ \A v \in Viewers : pc[v] # "put" /\ ~Expired(v)
    /\ now' = now + 1
    /\ UNCHANGED <<order, bytes, slots, sem, handler, asks>>

\* What the handler does without Steam.
Run(v) == Look(v) \/ TimesOut(v) \/ Store(v)

Handler(v) ==
    \/ Run(v) \/ Acquire(v) \/ BodyRead(v) \/ FetchFails(v)
    \/ \E s \in Sizes : Answers(v, s)

Finished ==
    /\ asks = MaxAsks /\ now = MaxTime
    /\ \A v \in Viewers : pc[v] = "idle"
    /\ UNCHANGED vars

Next ==
    \/ \E v \in Viewers : Handler(v) \/ \E u \in Urls : Ask(v, u)
    \/ Tick
    \/ Finished

-----------------------------------------------------------------------------
(* Properties. *)

\* c.bytes is the sum of what is kept, however often a preview is replaced,
\* expires or makes room, and stays in its budget; one entry for a key, filed
\* under it (media.go 107-165).
Accounted ==
    /\ bytes = Size(order)
    /\ bytes <= MaxBytes
    /\ Len(order) <= MaxPreviews
    /\ \A i, j \in DOMAIN order : order[i].key = order[j].key => i = j
    /\ \A i \in DOMAIN order : order[i].body.url = order[i].key

\* A token is held by a handler between Acquire and its answer and by nobody
\* else, whatever happened to its fetch (media.go 181-182).
SlotsOwned == sem = Cardinality({v \in Viewers : pc[v] \in Holding})

\* Nobody is shown bytes older than the lifetime of an entry and the time a
\* fetch may take: two handlers may fetch one preview at a time and the older
\* answer be stored last, in place of the newer (media.go 107-148, 185-229).
ServedFresh ==
    [][\A v \in Viewers :
          pc[v] # "idle" /\ pc'[v] = "idle" /\ shown'[v] # None =>
             /\ shown'[v].url = key[v]
             /\ now - shown'[v].at < MediaTTL + Timeout]_vars

\* Every request for a preview is answered, also when all tokens are taken by
\* fetches that fail (media.go 169-230).
PreviewEnds == \A v \in Viewers : pc[v] # "idle" ~> pc[v] = "idle"
=============================================================================
