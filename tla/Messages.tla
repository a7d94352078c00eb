------------------------------ MODULE Messages ------------------------------
(***************************************************************************)
(* The messages of a channel: posting (by a user or by a webhook that may  *)
(* repeat its request), editing, deleting, the embeds of a message and the *)
(* events that tell readers of all this.                                   *)
(*                                                                         *)
(* Every statement is a step of its own; no transaction spans a request.   *)
(* After the answer a goroutine crawls the links of the content and links  *)
(* what it finds to the message.  A content is the set of its links; a     *)
(* message has the name of the request that inserted it, as has a custom   *)
(* embed.  Validation of what a client sends is left out.                  *)
(***************************************************************************)
EXTENDS Naturals, FiniteSets

CONSTANTS
    MaxEvents,      \* bound: requests, statements that fail, a revocation
    MaxActive,      \* bound: of them at the same time, with their goroutines
    Links,          \* URLs
    Contents,       \* sets of links
    MaxEmbeds,      \* maxEmbedsPerMessage
    None, Gone

Posts == 1 .. MaxEvents    \* in the order in which they come

VARIABLES
    row,        \* messages: None, Gone or the row
    orphans,    \* requests whose attachment is stored and linked to no message
    customs,    \* custom rows of embeds
    linked,     \* message_embeds, per message
    revoked,    \* webhooks.revoked_at is set
    req,        \* per request: where it stands
    crawl,      \* per request: its goroutine
    shown,      \* per message: the content a reader was told last, or None
    seen,       \* per message: the embeds a reader was told last
    announced,  \* history: message events per message
    unsure,     \* history: messages that two requests (or a crawl) handled at the same
                \* time, or one of whose requests failed
    failures

rowVars == <<row, orphans, customs, linked>>
tellVars == <<shown, seen, announced>>
vars == <<rowVars, revoked, req, crawl, tellVars, unsure, failures>>

Row == [from : {"user", "webhook"}, content : Contents]
Embeds == Posts \cup Links
Request == [at : {"new", "read", "store", "insert", "reread", "customs", "link", "publish",
                  "get", "update", "old", "replace", "tell", "list", "send",
                  "remove", "removed", "done"},
            from : {"user", "webhook"}, message : Posts \cup {None},
            content : Contents, embeds : {"absent", "none", "some"},
            old : SUBSET Embeds, held : SUBSET Embeds, answer : Posts \cup {None}]
Crawl == [at : {"idle", "before", "crawl", "link", "replace", "list", "send"}, content : Contents,
          old : SUBSET Embeds, customs : SUBSET Embeds, found : SUBSET Links,
          held : SUBSET Embeds]

\* Assumed by the modules that instantiate this one; a content may have no link.
Assumptions ==
    /\ Contents \subseteq SUBSET Links /\ {} \in Contents
    /\ \A text \in Contents : IsFiniteSet(text)
    /\ MaxEmbeds \in Nat \ {0} /\ {MaxEvents, MaxActive} \subseteq Nat
    /\ Posts \cap Links = {} /\ None # Gone
    /\ None \notin Posts /\ {None, Gone} \cap (Contents \cup Row) = {}

TypeOK ==
    /\ row \in [Posts -> Row \cup {None, Gone}]
    /\ orphans \subseteq Posts /\ customs \subseteq Posts
    /\ linked \in [Posts -> SUBSET Embeds]
    /\ revoked \in BOOLEAN
    /\ req \in [Posts -> Request] /\ crawl \in [Posts -> Crawl]
    /\ shown \in [Posts -> Contents \cup {None}]
    /\ seen \in [Posts -> SUBSET Embeds]
    /\ announced \in [Posts -> 0 .. 2]
    /\ unsure \subseteq Posts /\ failures \in 0 .. MaxEvents

NoRequest == [at |-> "new", from |-> "user", message |-> None,
              content |-> {}, embeds |-> "absent", old |-> {}, held |-> {},
              answer |-> None]
NoCrawl == [at |-> "idle", content |-> {}, old |-> {}, customs |-> {}, found |-> {}, held |-> {}]

Init ==
    /\ row = [r \in Posts |-> None] /\ linked = [r \in Posts |-> {}]
    /\ orphans = {} /\ customs = {} /\ revoked = FALSE
    /\ req = [r \in Posts |-> NoRequest]
    /\ crawl = [r \in Posts |-> NoCrawl]
    /\ shown = [r \in Posts |-> None] /\ seen = [r \in Posts |-> {}]
    /\ announced = [r \in Posts |-> 0]
    /\ unsure = {} /\ failures = 0

Live(m) == row[m] \notin {None, Gone}
Begun == {r \in Posts : req[r].at # "new"}
Fails == Cardinality(Begun) + failures < MaxEvents /\ failures' = failures + 1

At(r, step) == req[r].at = step
Go(r, step) == req' = [req EXCEPT ![r].at = step]
Done(r, m) == [NoRequest EXCEPT !.at = "done", !.from = req[r].from,
                                !.message = req[r].message, !.answer = m]
Answer(r, m) == req' = [req EXCEPT ![r] = Done(r, m)]
Fail(r) == /\ req' = [req EXCEPT ![r] = Done(r, None)]
           /\ unsure' = unsure \cup ({req[r].message} \ {None})

Active(r) == req[r].at \notin {"new", "done"} \/ crawl[r].at # "idle"
Busy(m) == \E r \in Posts : req[r].message = m /\ Active(r)

(***************************************************************************)
(* Posting.                                                                *)
(***************************************************************************)
\* The row a webhook sent with the key (webhook_id, external_message_id).
WithKey == {m \in Posts : Live(m) /\ row[m].from = "webhook"}

\* A repeated request is answered with the message there is.
GetWebhookMessage(r) ==
    /\ At(r, "read")
    /\ IF WithKey = {} THEN Go(r, "store") ELSE \E m \in WithKey : Answer(r, m)
    /\ UNCHANGED <<rowVars, crawl, tellVars, unsure>>

StoreAttachment(r) ==
    /\ At(r, "store") /\ orphans' = orphans \cup {r}
    /\ IF req[r].from = "webhook" /\ revoked THEN Fail(r)
       ELSE Go(r, "insert") /\ unsure' = unsure
    /\ UNCHANGED <<row, customs, linked, crawl, tellVars>>

Insert(r) ==
    /\ row' = [row EXCEPT ![r] = [from |-> req[r].from,
                                  content |-> req[r].content]]
    /\ orphans' = orphans \ {r}
    /\ req' = [req EXCEPT ![r].message = r,
                          ![r].at = IF req[r].embeds = "some" THEN "customs" ELSE "publish"]

\* Variant: no unique key.
CreateMessageAsTwice(r) ==
    /\ At(r, "insert") /\ Insert(r)
    /\ UNCHANGED <<customs, linked, crawl, tellVars, unsure>>

\* Inserts the row and links its attachments, or finds that a repetition of
\* the request came first.
CreateMessageAs(r) ==
    /\ At(r, "insert")
    /\ IF req[r].from = "webhook" /\ WithKey # {} THEN Go(r, "reread") /\ UNCHANGED <<row, orphans>>
       ELSE Insert(r)
    /\ UNCHANGED <<customs, linked, crawl, tellVars, unsure>>

RereadWebhookMessage(r) ==
    /\ At(r, "reread")
    /\ IF WithKey = {} THEN Answer(r, None) ELSE \E m \in WithKey : Answer(r, m)
    /\ UNCHANGED <<rowVars, crawl, tellVars, unsure>>

CreateCustomEmbeds(r) ==
    /\ At(r, "customs")
    /\ customs' = customs \cup {r}
    /\ Go(r, IF req[r].message = r THEN "link" ELSE "replace")
    /\ UNCHANGED <<row, orphans, linked, crawl, tellVars, unsure>>

\* Fails if the message is deleted meanwhile.
AddMessageEmbeds(r) ==
    /\ At(r, "link")
    /\ IF Live(r) THEN linked' = [linked EXCEPT ![r] = @ \cup {r}] /\ Go(r, "publish")
                       /\ unsure' = unsure
       ELSE Fail(r) /\ linked' = linked
    /\ UNCHANGED <<row, orphans, customs, crawl, tellVars>>

\* The messages and the embeds of a message just inserted are sent; its links
\* are crawled after the answer.
PublishCreatedMessage(r) ==
    /\ At(r, "publish") /\ Answer(r, r)
    /\ announced' = [announced EXCEPT ![r] = @ + 1]
    /\ shown' = [shown EXCEPT ![r] = req[r].content]
    /\ LET own == IF req[r].embeds = "some" THEN {r} ELSE {}
       IN /\ seen' = [seen EXCEPT ![r] = own]
          /\ crawl' = [crawl EXCEPT ![r] = [NoCrawl EXCEPT !.at = "crawl", !.customs = own,
                                                          !.content = req[r].content]]
    /\ UNCHANGED <<rowVars, unsure>>

CreateStep(r) ==
    \/ GetWebhookMessage(r) \/ StoreAttachment(r) \/ CreateMessageAs(r)
    \/ RereadWebhookMessage(r) \/ CreateCustomEmbeds(r) \/ AddMessageEmbeds(r)
    \/ PublishCreatedMessage(r)

(***************************************************************************)
(* Editing.                                                                *)
(***************************************************************************)
\* Only who sent the message may edit it.
GetMessageByID(r) ==
    /\ At(r, "get")
    /\ LET m == req[r].message
       IN IF Live(m) /\ row[m].from = req[r].from THEN Go(r, "update") ELSE Answer(r, None)
    /\ UNCHANGED <<rowVars, crawl, tellVars, unsure>>

UpdateMessage(r) ==
    /\ At(r, "update")
    /\ LET m == req[r].message
       IN IF Live(m) THEN /\ row' = [row EXCEPT ![m].content = req[r].content]
                          /\ Go(r, "old")
          ELSE Answer(r, None) /\ row' = row
    /\ UNCHANGED <<orphans, customs, linked, crawl, tellVars, unsure>>

CustomsOf(m) == linked[m] \cap Posts

\* Without a list of embeds in the request the custom ones stay.
ListOldCustoms(r) ==
    /\ At(r, "old")
    /\ req' = [req EXCEPT ![r].old = CustomsOf(req[r].message),
                          ![r].at = CASE req[r].embeds = "absent" -> "tell"
                                      [] req[r].embeds = "none" -> "replace"
                                      [] req[r].embeds = "some" -> "customs"]
    /\ UNCHANGED <<rowVars, crawl, tellVars, unsure>>

\* The custom embeds read before are deleted, the new one is linked, all or
\* nothing.
ReplaceMessageCustomEmbeds(r) ==
    /\ At(r, "replace")
    /\ LET m == req[r].message
           new == IF req[r].embeds = "some" THEN {r} ELSE {}
       IN IF Live(m) \/ new = {}
          THEN /\ linked' = [linked EXCEPT ![m] = (@ \ req[r].old) \cup new]
               /\ customs' = customs \ req[r].old
               /\ req' = [req EXCEPT ![r].at = "tell", ![r].old = new]
               /\ unsure' = unsure
          ELSE Fail(r) /\ UNCHANGED <<linked, customs>>
    /\ UNCHANGED <<row, orphans, crawl, tellVars>>

TellEdit(r) ==
    /\ At(r, "tell")
    /\ shown' = [shown EXCEPT ![req[r].message] = req[r].content]
    /\ Go(r, "list")
    /\ UNCHANGED <<rowVars, crawl, seen, announced, unsure>>

\* The list is read, then sent; the links of the new content are crawled.
ListEdited(r) ==
    /\ At(r, "list")
    /\ req' = [req EXCEPT ![r].held = linked[req[r].message], ![r].at = "send"]
    /\ UNCHANGED <<rowVars, crawl, tellVars, unsure>>

SendEdited(r) ==
    /\ At(r, "send") /\ Answer(r, req[r].message)
    /\ seen' = [seen EXCEPT ![req[r].message] = req[r].held]
    /\ crawl' = [crawl EXCEPT ![r] = [NoCrawl EXCEPT !.at = "before", !.customs = req[r].old,
                                                      !.content = req[r].content]]
    /\ UNCHANGED <<rowVars, shown, announced, unsure>>

EditStep(r) ==
    \/ GetMessageByID(r) \/ UpdateMessage(r) \/ ListOldCustoms(r)
    \/ ReplaceMessageCustomEmbeds(r) \/ TellEdit(r) \/ ListEdited(r) \/ SendEdited(r)

(***************************************************************************)
(* Deleting.  What refers to the row goes with it, except rows of custom   *)
(* embeds, which nothing refers to any more.                               *)
(***************************************************************************)
DeleteMessage(r) ==
    /\ At(r, "remove")
    /\ LET m == req[r].message
       IN IF Live(m) THEN /\ row' = [row EXCEPT ![m] = Gone]
                          /\ linked' = [linked EXCEPT ![m] = {}]
                          /\ Go(r, "removed")
          ELSE Answer(r, None) /\ UNCHANGED <<row, linked>>
    /\ UNCHANGED <<orphans, customs, crawl, tellVars, unsure>>

TellDeletion(r) ==
    /\ At(r, "removed") /\ Answer(r, req[r].message)
    /\ shown' = [shown EXCEPT ![req[r].message] = None]
    /\ seen' = [seen EXCEPT ![req[r].message] = {}]
    /\ UNCHANGED <<rowVars, crawl, announced, unsure>>

DeleteStep(r) == DeleteMessage(r) \/ TellDeletion(r)

(***************************************************************************)
(* The goroutine that crawls.                                              *)
(***************************************************************************)
Crawling(r, step) == crawl[r].at = step
Crawled(r, step) == crawl' = [crawl EXCEPT ![r].at = step]
CrawlEnds(r) == crawl' = [crawl EXCEPT ![r] = NoCrawl]

\* What is left of the limit by the custom embeds known at the answer.
EmbedBudget(own) == MaxEmbeds - Cardinality(own)

ListOldLinks(r) ==
    /\ Crawling(r, "before")
    /\ crawl' = [crawl EXCEPT ![r].old = linked[req[r].message] \cap Links, ![r].at = "crawl"]
    /\ UNCHANGED <<linked, seen>>

\* Links that fail are skipped.
CrawlEmbeds(r) ==
    /\ Crawling(r, "crawl")
    /\ \E found \in SUBSET crawl[r].content :
          /\ Cardinality(found) <= EmbedBudget(crawl[r].customs)
          /\ IF req[r].message = r /\ found = {} THEN CrawlEnds(r)
             ELSE crawl' = [crawl EXCEPT ![r].found = found,
                               ![r].at = IF req[r].message = r THEN "link" ELSE "replace"]
    /\ UNCHANGED <<linked, seen>>

ProcessMessageEmbeds(r) ==
    /\ Crawling(r, "link")
    /\ IF Live(r)
       THEN linked' = [linked EXCEPT ![r] = @ \cup crawl[r].found] /\ Crawled(r, "list")
       ELSE linked' = linked /\ CrawlEnds(r)
    /\ UNCHANGED seen

ReplaceMessageLinkEmbeds(r) ==
    LET m == req[r].message
    IN linked' = [linked EXCEPT ![m] = (@ \ Links) \cup crawl[r].found]

ProcessEditedMessageEmbeds(r) ==
    /\ Crawling(r, "replace")
    /\ IF Live(req[r].message) \/ crawl[r].found = {}
       THEN /\ ReplaceMessageLinkEmbeds(r)
            /\ IF crawl[r].found = crawl[r].old THEN CrawlEnds(r) ELSE Crawled(r, "list")
       ELSE linked' = linked /\ CrawlEnds(r)
    /\ UNCHANGED seen

ListCrawled(r) ==
    /\ Crawling(r, "list")
    /\ crawl' = [crawl EXCEPT ![r].held = linked[req[r].message], ![r].at = "send"]
    /\ UNCHANGED <<linked, seen>>

SendCrawled(r) ==
    /\ Crawling(r, "send") /\ CrawlEnds(r)
    /\ seen' = [seen EXCEPT ![req[r].message] = crawl[r].held]
    /\ linked' = linked

\* A failed statement ends it.
CrawlFails(r) ==
    /\ crawl[r].at \notin {"idle", "crawl", "send"} 
    /\ CrawlEnds(r) /\ Fails
    /\ unsure' = unsure \cup {req[r].message}
    /\ UNCHANGED <<rowVars, revoked, req, tellVars>>

CrawlStep(r) ==
    /\ \/ ListOldLinks(r) \/ CrawlEmbeds(r) \/ ProcessMessageEmbeds(r)
       \/ ProcessEditedMessageEmbeds(r) \/ ListCrawled(r) \/ SendCrawled(r)
    /\ UNCHANGED <<row, orphans, customs, revoked, req, shown, announced, unsure, failures>>

(***************************************************************************)
(* Handlers.                                                               *)
(***************************************************************************)
MayBegin(r) ==
    /\ At(r, "new") /\ r = Cardinality(Begun) + 1
    /\ Cardinality(Begun) + failures < MaxEvents
    /\ Cardinality({q \in Posts : Active(q)}) < MaxActive

Begin(r, fields) ==
    /\ req' = [req EXCEPT ![r] = fields]
    /\ unsure' = IF fields.message # None /\ Busy(fields.message)
                 THEN unsure \cup {fields.message} ELSE unsure
    /\ UNCHANGED <<rowVars, revoked, crawl, tellVars, failures>>

\* The token is that of a webhook that is not revoked.
WebhookFromRequest == ~revoked

CreateMessageHandler(r) ==
    \E text \in Contents, e \in {"absent", "some"} :
        Begin(r, [NoRequest EXCEPT !.at = "store", !.content = text, !.embeds = e])

ExecuteWebhookHandler(r) ==
    /\ WebhookFromRequest
    /\ \E text \in Contents, e \in {"absent", "some"} :
          Begin(r, [NoRequest EXCEPT !.at = "read", !.from = "webhook", !.content = text,
                                     !.embeds = e])

Edit(r, from) ==
    \E m \in Posts \ {r}, text \in Contents, e \in {"absent", "none", "some"} :
        /\ row[m] # None
        /\ Begin(r, [NoRequest EXCEPT !.at = "get", !.from = from, !.message = m,
                                      !.content = text, !.embeds = e])

UpdateMessageHandler(r) == Edit(r, "user")
EditWebhookMessageHandler(r) == WebhookFromRequest /\ Edit(r, "webhook")

\* Allowed to the author and to whoever may delete messages of the channel.
DeleteMessageHandler(r) ==
    \E m \in Posts \ {r} :
        /\ row[m] # None
        /\ Begin(r, [NoRequest EXCEPT !.at = "remove", !.message = m])

DeleteWebhookMessageHandler(r) ==
    /\ WebhookFromRequest
    /\ \E m \in Posts \ {r} :
          /\ Live(m) /\ row[m].from = "webhook"
          /\ Begin(r, [NoRequest EXCEPT !.at = "remove", !.from = "webhook", !.message = m])

RevokeWebhook ==
    /\ ~revoked /\ revoked' = TRUE
    /\ Fails
    /\ UNCHANGED <<rowVars, req, crawl, tellVars, unsure>>

\* A failed statement ends the request with an error, what it did stays.
StatementFails(r) ==
    /\ req[r].at \notin {"new", "publish", "tell", "list", "send", "removed", "done"}
    /\ Fails
    /\ Fail(r)
    /\ UNCHANGED <<rowVars, revoked, crawl, tellVars>>

Handler(r) ==
    /\ MayBegin(r)
    /\ \/ CreateMessageHandler(r) \/ ExecuteWebhookHandler(r)
       \/ UpdateMessageHandler(r) \/ EditWebhookMessageHandler(r)
       \/ DeleteMessageHandler(r) \/ DeleteWebhookMessageHandler(r)

RequestStep(r) ==
    /\ CreateStep(r) \/ EditStep(r) \/ DeleteStep(r)
    /\ UNCHANGED <<revoked, failures>>

Next ==
    \/ \E r \in Posts :
          Handler(r) \/ RequestStep(r) \/ StatementFails(r) \/ CrawlStep(r) \/ CrawlFails(r)
    \/ RevokeWebhook

Spec == Init /\ [][Next]_vars

(***************************************************************************)
(* Properties.                                                             *)
(***************************************************************************)
\* A webhook may send a request again, also while the first is under way: all
\* that are answered are answered with one message, unless it was deleted.
RetriesAgree ==
    \A r, q \in {x \in Posts : req[x].at = "done" /\ req[x].from = "webhook" /\ req[x].answer # None} :
        LET m == req[r].answer
            n == req[q].answer
        IN m = n \/ row[m] = Gone \/ row[n] = Gone

\* Readers are sent a message once, however often it was posted, and the
\* attachment of a repeated request is on no message.
AnnouncedOnce ==
    \A r \in Posts :
        /\ announced[r] <= 1
        /\ req[r].at = "done" /\ req[r].answer \notin {None, r} /\ req[r].from = "webhook"
              => announced[r] = 0

Quiet(m) == Live(m) /\ m \notin unsure /\ ~Busy(m)

\* A message that was edited one request at a time has no link that is not in
\* its content, and not more embeds than it may have.
LinksAreOfTheContent ==
    \A m \in Posts : Quiet(m) =>
        /\ linked[m] \cap Links \subseteq row[m].content
        /\ Cardinality(linked[m]) <= MaxEmbeds

\* Whoever reads along knows the content and the embeds of such a message, or
\* that it is gone.
ReadersKnow ==
    \A m \in Posts \ unsure : ~Busy(m) =>
        /\ Live(m) => shown[m] = row[m].content /\ seen[m] = linked[m]
        /\ row[m] = Gone => shown[m] = None /\ seen[m] = {}

\* Only an edit that brings its own list of embeds takes a custom embed away.
TextEditsKeepCustomsStep ==
    \A m \in Posts :
       Live(m) /\ ~(CustomsOf(m) \subseteq CustomsOf(m)') =>
           row'[m] = Gone \/ \E r \in Posts : At(r, "replace") /\ req[r].message = m
                                                   /\ req[r].embeds # "absent"
TextEditsKeepCustoms == [][TextEditsKeepCustomsStep]_vars
=============================================================================
