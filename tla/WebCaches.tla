----------------------------- MODULE WebCaches -----------------------------
(***************************************************************************)
(* The two caches of the web server, of pages (BrowseCache) and of previews*)
(* (MediaCache).  They share the clock and no state, so a step of one is no*)
(* step of the other's: the traffic of a behaviour is for one of them.     *)
(***************************************************************************)
EXTENDS BrowseCache, FiniteSets

CONSTANTS
    Viewers, Sizes, MaxMedia, MaxPreviews, MediaBudget, Slots, MediaTTL,
    Timeout, MaxFetches

VARIABLES
    traffic, \* "pages" or "previews"
    order, bytes, slots, sem, body, deadline, place, preview, image, fetches

\* Hosts: one of Steam's, one below it, one that only ends in the same letters.
HostSuffixes == {<<"steamstatic", "com">>}
Url(host, path, fragment) ==
    [scheme |-> "https", user |-> FALSE, host |-> host, path |-> path,
     fragment |-> fragment]
Urls == {Url(<<"cdn", "steamstatic", "com">>, 1, ""),
         Url(<<"cdn", "steamstatic", "com">>, 1, "top"),
         Url(<<"steamstatic", "com">>, 2, ""),
         Url(<<"notsteamstatic", "com">>, 1, "")}

Media == INSTANCE MediaCache WITH
            MaxBytes <- MediaBudget, MaxAsks <- MaxFetches, pc <- place,
            key <- preview, shown <- image, asks <- fetches

ASSUME MediaAssumption == Media!MediaConstants

pageVars == <<caches, step, ask, key, val, shown, asks, strays>>
mediaVars == <<order, bytes, slots, sem, body, deadline, place, preview, image, fetches>>
allVars == <<now, traffic, pageVars, mediaVars>>

CachesInit ==
    /\ PagesInit /\ Media!Init
    /\ traffic \in {"pages", "previews"}
    /\ traffic = "pages" => slots = CHOOSE n \in Slots : TRUE

BrowsePages == traffic = "pages" /\ PagesNext /\ UNCHANGED <<traffic, mediaVars>>

ViewPreviews ==
    traffic = "previews" /\ Media!Next /\ UNCHANGED <<traffic, pageVars>>

CachesNext == BrowsePages \/ ViewPreviews

Alone(A) == traffic = "previews" /\ A /\ UNCHANGED <<traffic, pageVars>>

\* Handlers run, a token given back goes to the one who has waited longest,
\* fetches are given up at their deadline.  Steam need not answer.
CachesSpec ==
    /\ CachesInit
    /\ [][CachesNext]_allVars
    /\ WF_allVars(Alone(Media!Tick))
    /\ \A v \in Viewers :
          /\ WF_allVars(Alone(Media!Run(v)))
          /\ SF_allVars(Alone(Media!Acquire(v)))

-----------------------------------------------------------------------------
(* The properties of both parts. *)

\* The types of the previews, their bytes and the tokens (see MediaCache).
MediaConsistent == Media!TypeOK /\ Media!Accounted /\ Media!SlotsOwned

\* No page is older than its entry, no preview older than its entry and its
\* fetch may be (see BrowseCache and MediaCache).
NothingStale == ServedFresh /\ Media!ServedFresh

\* Every request for a preview is answered (see MediaCache).
PreviewEnds == Media!PreviewEnds
=============================================================================
