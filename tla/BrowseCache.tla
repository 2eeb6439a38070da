---------------------------- MODULE BrowseCache ----------------------------
(***************************************************************************)
(* internal/web/cache.go and its users, runQuery and runDetail of          *)
(* server.go: three TTL caches, of list pages, of items and of the cursor  *)
(* that leads from a page to the next.  Handlers run at the same time;     *)
(* each cache has its own mutex and is left between any two steps.         *)
(*                                                                         *)
(* One search in several languages stands for all lists: language is a     *)
(* part of every key, like the application, the search text, the order and *)
(* the page size.  Page n of the list holds one item, number n.  A cursor  *)
(* is the number of the page it leads to, 0 for the empty string, 1 for    *)
(* "*"; Steam goes by the cursor when there is one and by the page         *)
(* otherwise (query.go 108-121).  Nothing obliges a request to name the    *)
(* page that its cursor leads to.                                          *)
(***************************************************************************)
EXTENDS Naturals, Sequences, SequencesExt

CONSTANTS
    Handlers,
    Langs,
    NumPages,   \* pages of the list
    QueryTTL,   \* queryTTL (180 s)
    ItemTTL,    \* itemTTL (300 s)
    MaxQueries, \* maxQueryEntries (64)
    MaxItems,   \* maxItemEntries (512)
    MaxNext,    \* maxQueryEntries * 4
    MaxAsks,    \* bound: requests
    MaxTime,    \* bound: of the clock
    None

ASSUME CacheAssumption ==
    /\ NumPages \in Nat \ {0}
    /\ QueryTTL \in Nat \ {0} /\ ItemTTL \in Nat \ {0}
    /\ MaxQueries \in Nat \ {0} /\ MaxItems \in Nat \ {0}
    /\ MaxNext \in Nat \ {0}
    /\ MaxAsks \in Nat /\ MaxTime \in Nat

Pages == 1 .. NumPages
Cursors == 0 .. NumPages

VARIABLES
    now,
    queries,  \* a cache is the sequence of its entries, front first
    items,
    pageNext,
    step,       \* step[h]: where the handler stands
    ask,      \* ask[h]: what it was asked for
    key,      \* key[h]: the QueryKey it computed
    val,      \* val[h]: what Steam answered
    shown,    \* shown[h]: the page the browser of h shows
    asks,     \* requests so far
    strays    \* pages that were asked for with the cursor of another one

caches == <<queries, items, pageNext>>
browseVars == <<now, caches, step, ask, key, val, shown, asks, strays>>

\* A list page: its number as asked for, where it is in the list, the time
\* Steam answered.  An item page has the page that holds the item.
ListPage(l, p, pos, t) ==
    [kind |-> "list", lang |-> l, page |-> p, pos |-> pos, at |-> t]
ItemPage(l, id, t) ==
    [kind |-> "item", lang |-> l, page |-> id, pos |-> id, at |-> t]
Contents == {ListPage(l, p, pos, t) : l \in Langs, p \in Pages, pos \in Pages,
                                      t \in 0 .. MaxTime}
        \cup {ItemPage(l, id, t) : l \in Langs, id \in Pages, t \in 0 .. MaxTime}

Keys(c) == {c[i].key : i \in DOMAIN c}

Sound(c, max) ==
    /\ Len(c) <= max
    /\ \A i, j \in DOMAIN c : c[i].key = c[j].key => i = j

PagesTypeOK ==
    /\ now \in 0 .. MaxTime
    /\ Sound(queries, MaxQueries)
    /\ Sound(items, MaxItems)
    /\ Sound(pageNext, MaxNext)
    /\ Keys(queries) \subseteq Langs \X Pages \X Cursors
    /\ Keys(items) \cup Keys(pageNext) \subseteq Langs \X Pages
    /\ step \in [Handlers -> {"idle", "cursor", "look", "query", "put", "seed",
                              "chain", "lookItem", "details", "putItem"}]
    /\ ask \in [Handlers -> (Langs \X Pages \X Cursors) \cup {None}]
    /\ key \in [Handlers -> (Langs \X Pages \X Cursors) \cup {None}]
    /\ val \in [Handlers -> Contents \cup {None}]
    /\ shown \in [Handlers -> Contents \cup {None}]
    /\ asks \in 0 .. MaxAsks
    /\ strays \subseteq Langs \X Pages

PagesInit ==
    /\ now = 0
    /\ queries = <<>> /\ items = <<>> /\ pageNext = <<>>
    /\ step = [h \in Handlers |-> "idle"]
    /\ ask = [h \in Handlers |-> None]
    /\ key = [h \in Handlers |-> None]
    /\ val = [h \in Handlers |-> None]
    /\ shown = [h \in Handlers |-> None]
    /\ asks = 0
    /\ strays = {}

-----------------------------------------------------------------------------
(* ttlCache. *)

Position(c, k) == CHOOSE i \in DOMAIN c : c[i].key = k

Without(c, k) == IF k \in Keys(c) THEN RemoveAt(c, Position(c, k)) ELSE c

\* Mutant: expired entries count.
HitExpired(c, k) == k \in Keys(c)

\* An entry counts until its time has come.
Hit(c, k) == \E i \in DOMAIN c : c[i].key = k /\ c[i].expires > now

Value(c, k) == c[Position(c, k)].value

\* The entry moves to the back; an expired one is removed.
AfterGet(c, k) ==
    IF Hit(c, k)
      THEN Append(Without(c, k), c[Position(c, k)])
      ELSE Without(c, k)

\* One entry is too many at most.
Evicted(c, max) == IF Len(c) > max THEN Tail(c) ELSE c

AfterPut(c, k, v, ttl, max) ==
    Evicted(Append(Without(c, k), [key |-> k, value |-> v, expires |-> now + ttl]),
            max)

-----------------------------------------------------------------------------
(* What browsers ask for. *)

Start(h, l, a) ==
    /\ step[h] = "idle"
    /\ asks < MaxAsks
    /\ asks' = asks + 1
    /\ step' = [step EXCEPT ![h] = l]
    /\ ask' = [ask EXCEPT ![h] = a]
    /\ shown' = [shown EXCEPT ![h] = None]
    /\ strays' = IF a[3] \in {0, a[2]} THEN strays
                 ELSE strays \cup {<<a[1], a[2]>>}
    /\ UNCHANGED <<now, caches, key, val>>

\* The search form, a "Next" link (index.html 105-106) and any address of a page
\* or of GET /api/workshop.  A page that is not named is the first one.
OpenPage(h, l, p, c) == Start(h, "cursor", <<l, p, c>>)

\* The page of an item, or GET /api/workshop/{id}.
OpenItem(h, l, id) == Start(h, "lookItem", <<l, id, 0>>)

-----------------------------------------------------------------------------
(* runQuery. *)

Lang(h) == ask[h][1]
Number(h) == ask[h][2]

\* Mutant: the cursor of the page itself.
ChainKeyOwn(h) == <<Lang(h), Number(h)>>

ChainKey(h) == <<Lang(h), Number(h) - 1>>

Show(h, v) ==
    /\ shown' = [shown EXCEPT ![h] = v]
    /\ step' = [step EXCEPT ![h] = "idle"]
    /\ ask' = [ask EXCEPT ![h] = None]
    /\ key' = [key EXCEPT ![h] = None]
    /\ val' = [val EXCEPT ![h] = None]

CursorForPage(h) ==
    /\ step[h] = "cursor"
    /\ LET given == ask[h][3]
           k == ChainKey(h)
           look == given = 0 /\ Number(h) > 1
           cursor == IF look /\ Hit(pageNext, k) THEN Value(pageNext, k)
                     ELSE given
       IN  /\ pageNext' = IF look THEN AfterGet(pageNext, k) ELSE pageNext
           /\ key' = [key EXCEPT ![h] = <<Lang(h), Number(h), cursor>>]
    /\ step' = [step EXCEPT ![h] = "look"]
    /\ UNCHANGED <<now, queries, items, ask, val, shown, asks, strays>>

GetQuery(h) ==
    /\ step[h] = "look"
    /\ queries' = AfterGet(queries, key[h])
    /\ IF Hit(queries, key[h])
         THEN Show(h, Value(queries, key[h]))
         ELSE step' = [step EXCEPT ![h] = "query"] /\ UNCHANGED <<ask, key, val, shown>>
    /\ UNCHANGED <<now, items, pageNext, asks, strays>>

Answer(h, v, next) ==
    /\ val' = [val EXCEPT ![h] = v]
    /\ step' = [step EXCEPT ![h] = next]
    /\ UNCHANGED <<now, caches, ask, key, shown, asks, strays>>

\* The call of the browse session fails, or Steam has no such page or item, and
\* the browser shows the error.
CallFails(h) ==
    /\ step[h] \in {"query", "details"}
    /\ Show(h, None)
    /\ UNCHANGED <<now, caches, asks, strays>>

\* Where Steam goes to.
Place(k) == IF k[3] # 0 THEN k[3] ELSE k[2]

QueryFiles(h) ==
    /\ step[h] = "query"
    /\ Answer(h, ListPage(Lang(h), Number(h), Place(key[h]), now), "put")

PutQuery(h) ==
    /\ step[h] = "put"
    /\ queries' = AfterPut(queries, key[h], val[h], QueryTTL, MaxQueries)
    /\ step' = [step EXCEPT ![h] = "seed"]
    /\ UNCHANGED <<now, items, pageNext, ask, key, val, shown, asks, strays>>

\* Mutant: items of all languages under one key.
ItemKeyAnyLang(l, id) == <<CHOOSE m \in Langs : TRUE, id>>

ItemKey(l, id) == <<l, id>>

SeedItems(h) ==
    /\ step[h] = "seed"
    /\ items' = AfterPut(items, ItemKey(Lang(h), val[h].pos),
                         ItemPage(Lang(h), val[h].pos, val[h].at), ItemTTL, MaxItems)
    /\ step' = [step EXCEPT ![h] = "chain"]
    /\ UNCHANGED <<now, queries, pageNext, ask, key, val, shown, asks, strays>>

\* The last page has no next cursor.
PutNext(h) ==
    /\ step[h] = "chain"
    /\ pageNext' = IF val[h].pos < NumPages
                     THEN AfterPut(pageNext, <<Lang(h), Number(h)>>,
                                   val[h].pos + 1, QueryTTL, MaxNext)
                     ELSE pageNext
    /\ Show(h, val[h])
    /\ UNCHANGED <<now, queries, items, asks, strays>>

-----------------------------------------------------------------------------
(* runDetail. *)

GetItem(h) ==
    /\ step[h] = "lookItem"
    /\ LET k == ItemKey(Lang(h), Number(h))
       IN  /\ items' = AfterGet(items, k)
           /\ IF Hit(items, k)
                THEN Show(h, Value(items, k))
                ELSE /\ step' = [step EXCEPT ![h] = "details"]
                     /\ UNCHANGED <<ask, key, val, shown>>
    /\ UNCHANGED <<now, queries, pageNext, asks, strays>>

GetItemDetails(h) ==
    /\ step[h] = "details"
    /\ Answer(h, ItemPage(Lang(h), Number(h), now), "putItem")

PutItem(h) ==
    /\ step[h] = "putItem"
    /\ items' = AfterPut(items, ItemKey(Lang(h), Number(h)), val[h], ItemTTL,
                         MaxItems)
    /\ Show(h, val[h])
    /\ UNCHANGED <<now, queries, pageNext, asks, strays>>

-----------------------------------------------------------------------------

Storing == {"put", "seed", "chain", "putItem"}

\* Storing takes no time to speak of: the clock does not move meanwhile.
Tick ==
    /\ now < MaxTime
    /\ \A h \in Handlers : step[h] \notin Storing
    /\ now' = now + 1
    /\ UNCHANGED <<caches, step, ask, key, val, shown, asks, strays>>

Handler(h) ==
    \/ CursorForPage(h) \/ GetQuery(h) \/ QueryFiles(h) \/ CallFails(h)
    \/ PutQuery(h) \/ SeedItems(h) \/ PutNext(h)
    \/ GetItem(h) \/ GetItemDetails(h) \/ PutItem(h)

PagesFinished ==
    /\ asks = MaxAsks /\ now = MaxTime
    /\ \A h \in Handlers : step[h] = "idle"
    /\ UNCHANGED browseVars

PagesNext ==
    \/ \E h \in Handlers, l \in Langs, p \in Pages, c \in Cursors : OpenPage(h, l, p, c)
    \/ \E h \in Handlers, l \in Langs, id \in Pages : OpenItem(h, l, id)
    \/ \E h \in Handlers : Handler(h)
    \/ Tick
    \/ PagesFinished

PagesSpec == PagesInit /\ [][PagesNext]_browseVars

-----------------------------------------------------------------------------
(* Properties. *)

\* Some page up to p was asked for with the cursor of another one.
Misled(l, p) == \E q \in 1 .. p : <<l, q>> \in strays

\* Page n, asked for with a cursor, with one found in the chain or with none,
\* answered by Steam or by the cache, is the n-th of the list, unless somebody
\* asked in this language for it or for a page before it with the cursor of
\* another page (cache.go 119-148, server.go 246-260).
RightPage ==
    \A h \in Handlers :
        shown[h] # None =>
            \/ shown[h].pos = shown[h].page
            \/ Misled(shown[h].lang, shown[h].page)

\* What a handler finds in a cache was filed by others, and is in the
\* language and of the page it looks for, and what Steam would send for its
\* cursor (cache.go 69-75, 150-162).
FiledRight ==
    \A h \in Handlers :
        /\ step[h] = "look" /\ Hit(queries, key[h]) =>
              LET v == Value(queries, key[h])
              IN  v.lang = Lang(h) /\ v.page = Number(h) /\ v.pos = Place(key[h])
        /\ step[h] = "lookItem" /\ Hit(items, ItemKey(Lang(h), Number(h))) =>
              LET v == Value(items, ItemKey(Lang(h), Number(h)))
              IN  v.lang = Lang(h) /\ v.pos = Number(h)

\* The types (a cache stays within its capacity and has one entry for a key,
\* cache.go 63-86), and every entry under its key.
PagesConsistent == PagesTypeOK /\ FiledRight

\* What is taken from a cache was Steam's answer within its lifetime: being
\* looked at keeps an entry from eviction, not from expiry, and an item that
\* came with a list is as old as the list (cache.go 44-86, 119-133).
ServedFresh ==
    [][\A h \in Handlers :
          /\ step[h] = "look" /\ step'[h] = "idle" => now - shown'[h].at < QueryTTL
          /\ step[h] = "lookItem" /\ step'[h] = "idle" => now - shown'[h].at < ItemTTL]_browseVars

-----------------------------------------------------------------------------
(* What the code says and does not do. *)

\* cache.go 135: "CursorForPage resolves the Steam cursor for this page
\* request."  What it finds for page n, asked for by number, leads to page n.
\* PutQuery files the cursor behind an answer under the page that was asked
\* for, wherever the cursor of that request led.
CursorOfPage ==
    \A h \in Handlers :
        step[h] = "look" /\ ask[h][3] = 0 => key[h][3] \in {0, Number(h)}
=============================================================================
