-------------------------------- MODULE Embeds --------------------------------
(***************************************************************************)
(* The link embed of one URL: a row shared by every message that has the   *)
(* link.  A crawl takes the row while it is fresh; else it fetches, each    *)
(* fetch with a slot of the outbound semaphore, overwrites the row and     *)
(* tells the messages that had it.  Viewers read the embed, or play its    *)
(* video through the relay, with the access of a message that has it.      *)
(*                                                                         *)
(* What is fetched is the version of the page; parsing is left out.  The   *)
(* token buckets, the robots rules of a host, the TTLs and the time left   *)
(* for a crawl are choices.                                                *)
(***************************************************************************)
EXTENDS Naturals, Sequences, FiniteSets

CONSTANTS
    Messages,           \* messages with the link; a crawl each
    Viewers,            \* requests for the embed's video
    Channel,            \* of a message
    Reads,              \* the channels whoever makes a request of Viewers may read
    Providers,
    OutboundMaxConc,
    MaxVersions,        \* bound: versions of the page
    None

Assumptions ==
    /\ IsFiniteSet(Messages \cup Viewers) /\ Messages \cap Viewers = {}
    /\ Providers \subseteq {"fxtwitter", "gifmedia", "gif", "reddit", "oembed", "web"}
    /\ OutboundMaxConc \in Nat \ {0} /\ MaxVersions \in Nat \ {0} /\ None \notin Nat

Askers == Messages \cup Viewers

VARIABLES
    provider,   \* what NormalizeURL and the host make of the URL
    page,       \* the version of the page
    embed,      \* the version in the row of the cache key
    fresh,      \* fetched_at is within the TTL (and a Reddit video has not expired)
    links,      \* message_embeds
    seen,       \* per message: the version its readers were told
    req,        \* per request: where it stands
    outbound,   \* slots of outboundSem that are taken
    video,      \* slots of embedVideoSem that are taken
    unsure      \* history: messages that a crawl or a refresh overlapped with

vars == <<provider, page, embed, fresh, links, seen, req, outbound, video, unsure>>

Version == 0 .. MaxVersions
Request == [at : {"new", "cache", "next", "busy", "upsert", "refs", "link", "tell",
                  "open", "stream", "refused", "failed", "done"},
            route : {"own", "fallback"}, step : Nat, got : Version, refs : SUBSET Messages]
NoRequest == [at |-> "new", route |-> "own", step |-> 1, got |-> 0, refs |-> {}]

TypeOK ==
    /\ provider \in Providers /\ page \in Version /\ embed \in Version \cup {None}
    /\ fresh \in BOOLEAN /\ links \subseteq Messages
    /\ seen \in [Messages -> Version \cup {None}]
    /\ req \in [Askers -> Request]
    /\ outbound \in 0 .. OutboundMaxConc /\ video \in 0 .. OutboundMaxConc
    /\ unsure \subseteq Messages

Init ==
    /\ provider \in Providers /\ page = 0 /\ embed = None /\ fresh = FALSE
    /\ links = {} /\ seen = [m \in Messages |-> None]
    /\ req = [r \in Askers |-> NoRequest] /\ outbound = 0 /\ video = 0 /\ unsure = {}

At(r, at) == req[r].at = at
Go(r, at) == req' = [req EXCEPT ![r].at = at]

\* The page changes; fetched_at or a signature grows old.
PageChanges ==
    /\ page < MaxVersions /\ page' = page + 1
    /\ UNCHANGED <<provider, embed, fresh, links, seen, req, outbound, video, unsure>>
EmbedAges ==
    /\ embed # None /\ fresh /\ fresh' = FALSE
    /\ UNCHANGED <<provider, page, embed, links, seen, req, outbound, video, unsure>>

-----------------------------------------------------------------------------
(***************************************************************************)
(* The fetches of each kind of URL, in order.  One that "must" succeed has  *)
(* a fallback or ends the crawl; a "maybe" is made for some pages only; an *)
(* "extra" may fail without the embed being lost.                          *)
(***************************************************************************)
FxTwitterRoute == <<"must", "extra">>               \* status, image
DirectGIFRoute == <<"must">>                        \* the media itself
GIFRoute == <<"must", "must">>                      \* page, rendition
RedditRoute == <<"maybe", "must", "maybe", "extra">> \* share link, post, oEmbed of a translated post, image
RedditOEmbedRoute == <<"must", "extra">>            \* oEmbed, image
OEmbedRoute == <<"must", "extra">>                  \* oEmbed, thumbnail
OpenGraphRoute == <<"must", "extra">>               \* page, image

RouteOf(r) ==
    CASE provider = "fxtwitter" -> FxTwitterRoute
      [] provider = "gifmedia" -> DirectGIFRoute
      [] provider = "gif" -> GIFRoute
      [] provider = "reddit" -> IF req[r].route = "own" THEN RedditRoute ELSE RedditOEmbedRoute
      [] provider = "oembed" -> IF req[r].route = "own" THEN OEmbedRoute ELSE OpenGraphRoute
      [] provider = "web" -> OpenGraphRoute
Kind(r) == RouteOf(r)[req[r].step]

\* A row that is fresh answers; else the buckets decide whether to fetch.
GetEmbedByCacheKey(r) ==
    /\ At(r, "cache")
    /\ IF embed # None /\ fresh
       THEN req' = [req EXCEPT ![r].at = IF r \in Messages THEN "link" ELSE "open", ![r].got = embed]
       ELSE Go(r, "next") \/ Go(r, "failed")
    /\ UNCHANGED <<provider, page, embed, fresh, links, seen, outbound, video, unsure>>

\* What comes after the fetch of this step, when it is over or was not needed.
Proceed(r, got) ==
    req' = [req EXCEPT ![r].at = IF req[r].step = Len(RouteOf(r)) THEN "upsert" ELSE "next",
                       ![r].step = @ + 1, ![r].got = got]
\* Reddit falls back to oEmbed, and oEmbed to the page itself.
FallBack(r) == req' = [req EXCEPT ![r].at = "next", ![r].route = "fallback", ![r].step = 1]

StepFails(r) ==
    \/ Kind(r) = "extra" /\ Proceed(r, req[r].got)
    \/ /\ Kind(r) = "must" /\ provider \in {"reddit", "oembed"} /\ req[r].route = "own"
       /\ FallBack(r)
    \/ Kind(r) # "extra" /\ (provider = "oembed" => req[r].route = "fallback") /\ Go(r, "failed")

\* The page has no such thing.
NotNeeded(r) ==
    /\ At(r, "next") /\ Kind(r) # "must" /\ Proceed(r, req[r].got)
    /\ UNCHANGED <<provider, page, embed, fresh, links, seen, outbound, video, unsure>>

\* robots.txt forbids it, or the semaphore is full.  (robots.txt is itself fetched, but
\* without a slot.)
FetchRefused(r) ==
    /\ At(r, "next") /\ StepFails(r)
    /\ UNCHANGED <<provider, page, embed, fresh, links, seen, outbound, video, unsure>>

AcquireOutboundSlot(r) ==
    /\ At(r, "next") /\ outbound < OutboundMaxConc
    /\ outbound' = outbound + 1 /\ Go(r, "busy")
    /\ UNCHANGED <<provider, page, embed, fresh, links, seen, video, unsure>>

\* Variant: a fetch that fails keeps its slot.
SafeFetchKeepsSlot(r) ==
    /\ At(r, "busy")
    /\ \/ Proceed(r, IF Kind(r) = "must" THEN page ELSE req[r].got) /\ outbound' = outbound - 1
       \/ StepFails(r) /\ UNCHANGED outbound
    /\ UNCHANGED <<provider, page, embed, fresh, links, seen, video, unsure>>

\* The answer, or an error or the end of the time; the slot is given back in each case.
SafeFetch(r) ==
    /\ At(r, "busy") /\ outbound' = outbound - 1
    /\ \/ Proceed(r, IF Kind(r) = "must" THEN page ELSE req[r].got)
       \/ StepFails(r)
    /\ UNCHANGED <<provider, page, embed, fresh, links, seen, video, unsure>>

\* INSERT ... ON CONFLICT (cache_key) DO UPDATE.  OpenEmbedVideo drops what the crawl of a
\* message does next: nobody is told of a row that it renewed.  What oEmbed gave is
\* written within its own route, so that a write that fails falls back to the page.
UpsertLinkEmbed(r) ==
    /\ At(r, "upsert")
    /\ \/ /\ embed' = req[r].got /\ fresh' = TRUE
          /\ Go(r, IF r \in Messages THEN "refs" ELSE "open")
          /\ unsure' = IF r \in Viewers THEN unsure \cup links ELSE unsure
       \/ /\ IF provider = "oembed" /\ req[r].route = "own" THEN FallBack(r) ELSE Go(r, "failed")
          /\ UNCHANGED <<embed, fresh, unsure>>
    /\ UNCHANGED <<provider, page, links, seen, outbound, video>>

-----------------------------------------------------------------------------
(***************************************************************************)
(* The crawl of a message.                                                 *)
(***************************************************************************)
Crawling == {"cache", "next", "busy", "upsert", "refs", "link", "tell"}
Overlapping(r) == {q \in Askers \ {r} : req[q].at \in Crawling}
Unsure(r) == IF Overlapping(r) = {} THEN {} ELSE links \cup ((Overlapping(r) \cup {r}) \cap Messages)

CrawlEmbeds(m) ==
    /\ At(m, "new") /\ Go(m, "cache")
    /\ unsure' = unsure \cup Unsure(m)
    /\ UNCHANGED <<provider, page, embed, fresh, links, seen, outbound, video>>

\* The messages that show the row as it was, read before this one is linked.
ListMessageRefsByEmbedID(m) ==
    /\ At(m, "refs") /\ req' = [req EXCEPT ![m].at = "link", ![m].refs = links]
    /\ UNCHANGED <<provider, page, embed, fresh, links, seen, outbound, video, unsure>>

AddMessageEmbeds(m) ==
    /\ At(m, "link") /\ Go(m, "tell") /\ links' = links \cup {m}
    /\ UNCHANGED <<provider, page, embed, fresh, seen, outbound, video, unsure>>

MessageEmbedsUpdate(m) ==
    /\ At(m, "tell") /\ Go(m, "done")
    /\ seen' = [n \in Messages |-> IF n \in req[m].refs \cup {m} THEN req[m].got ELSE seen[n]]
    /\ UNCHANGED <<provider, page, embed, fresh, links, outbound, video, unsure>>

-----------------------------------------------------------------------------
(***************************************************************************)
(* Reading the embed.                                                      *)
(***************************************************************************)
CanReadMessage(v, m) == Channel[m] \in Reads

\* GetChannelIDByEmbedID takes any one of the messages, and the access to its channel decides.
\* OpenEmbedVideo renews a row that is too old, then asks for a slot.
GetEmbed(v) ==
    /\ At(v, "new")
    /\ IF links = {} THEN Go(v, "refused")
       ELSE \E m \in links :
               Go(v, IF ~CanReadMessage(v, m) THEN "refused"
                     ELSE IF provider = "reddit" /\ ~fresh THEN "cache" ELSE "open")
    /\ unsure' = IF req'[v].at = "cache" THEN unsure \cup Unsure(v) ELSE unsure
    /\ UNCHANGED <<provider, page, embed, fresh, links, seen, outbound, video>>

\* Without a slot, or when the server, the scheme or the type is not what it must be, the
\* relay fails; the slot it took then is free again.
OpenEmbedVideo(v) ==
    /\ At(v, "open")
    /\ \/ Go(v, "failed") /\ UNCHANGED video
       \/ video < OutboundMaxConc /\ video' = video + 1 /\ Go(v, "stream")
    /\ UNCHANGED <<provider, page, embed, fresh, links, seen, outbound, unsure>>

VideoEnds(v) ==
    /\ At(v, "stream") /\ Go(v, "done") /\ video' = video - 1
    /\ UNCHANGED <<provider, page, embed, fresh, links, seen, outbound, unsure>>

GetOrCreateEmbed(r) ==
    GetEmbedByCacheKey(r) \/ NotNeeded(r) \/ FetchRefused(r) \/ AcquireOutboundSlot(r) \/ SafeFetch(r) \/ UpsertLinkEmbed(r)

Next ==
    \/ PageChanges \/ EmbedAges
    \/ \E r \in Askers : GetOrCreateEmbed(r)
    \/ \E m \in Messages :
          CrawlEmbeds(m) \/ ListMessageRefsByEmbedID(m) \/ AddMessageEmbeds(m) \/ MessageEmbedsUpdate(m)
    \/ \E v \in Viewers : GetEmbed(v) \/ OpenEmbedVideo(v) \/ VideoEnds(v)

Spec == Init /\ [][Next]_vars

-----------------------------------------------------------------------------
\* Both semaphores count what is under way, along every path of every provider: none is
\* lost, so that previews and videos never stop for good.
SlotsAreGivenBack ==
    /\ outbound = Cardinality({r \in Askers : At(r, "busy")})
    /\ video = Cardinality({v \in Viewers : At(v, "stream")})

\* The row is shared: when a crawl renews it, the readers of every message that already
\* had it are told, unless another crawl was under way with it.
ReadersHaveTheRow ==
    \A m \in links \ unsure : (\A r \in Askers : req[r].at \notin Crawling) => seen[m] = embed

\* What a comment says and the model refutes: who may read a message that has the
\* embed gets it, `Embed inexistente ou sem vinculo com mensagem acessivel -> 404'
\* (GetEmbed).
LinkedIsFound ==
    [][\A v \in Viewers, m \in links : At(v, "new") /\ CanReadMessage(v, m) => req'[v].at # "refused"]_vars
=============================================================================
