----------------------------- MODULE OwnerChannel -----------------------------
(***************************************************************************)
(* The owner outside the dashboard: mail to the owner is mirrored to a     *)
(* chat (integrations/owner_mail_enqueuer.py, dashboard/sse.py, the outbox *)
(* dispatcher), and what the owner writes there becomes mail to an agent   *)
(* (integrations/lark). One channel is registered; the services of `lyre   *)
(* serve` die and restart together.                                        *)
(***************************************************************************)
EXTENDS Integers, Sequences, FiniteSets

CONSTANTS
    Agents,             \* agents that exist
    Nobody,             \* what the owner may address and does not exist
    Dispatcher,         \* the default recipient
    QueueMax, SweepCap, \* MailboxBroadcaster.queue_max; catch_up's limit
    MaxMail,            \* the mail that the liveness is about
    Bound               \* bounds: what agents and people write, which faults occur

FaultKinds == {"crash", "post", "forget", "prune", "redelivery", "download", "worker"}

ASSUME OwnerChannelAssumption ==
    /\ Dispatcher \in Agents /\ Nobody \notin Agents
    /\ "owner" \notin Agents    \* the owner has a row among the agents, and no wakeups
    /\ MaxMail \in Nat
    /\ {QueueMax, SweepCap} \subseteq Nat \ {0}
    /\ Bound \subseteq [agents : Nat, dashboard : Nat, chat : Nat, kinds : SUBSET FaultKinds]

VARIABLES
    mail,       \* mailbox_messages: parent_msg_id, the channel's id in metadata, external_id
    rows,       \* outbox: the rows for the channel, published or not
    acks,       \* mail_reactions
    chat,       \* the channel: its messages, each in the thread of its root
    memory,     \* the posts whose uuid the channel still knows
    up,         \* the process and what dies with it:
    seen,       \* _last_seen_id of the broadcaster
    enq,        \* what the enqueuer is at
    queue, todo,        \* its subscription, and the mail in its hands: both are in the order
                        \* of the ids, which only grow
    job,        \* the row that the outbox dispatcher is at
    handlers,   \* running _handle_inbound coroutines
    delivered, faults,  \* messages of the chat that were pushed; what went wrong
    bound       \* the bounds of this behaviour, never changed

store == <<mail, rows, acks>>
volatile == <<seen, enq, queue, todo, job, handlers>>
counts == <<delivered, faults, bound>>
vars == <<store, chat, memory, up, volatile, counts>>

None    == 0
Owner   == "owner"
IsOwners(m) == mail[m].to = Owner
OwnersMail  == {m \in DOMAIN mail : IsOwners(m)}
IsFirst(m, S) == m \in S /\ \A k \in S : m <= k
IsLast(m, S)  == m \in S /\ \A k \in S : k <= m
Idle    == [row |-> None, stage |-> "idle", id |-> None, target |-> None, kind |-> "publish"]

TypeOK ==
    /\ \A m \in DOMAIN mail : /\ mail[m].to \in Agents \cup {Owner}
                              /\ mail[m].parent \in 0..m - 1
                              /\ mail[m].ext \in {None} \cup DOMAIN chat
    /\ \A r \in rows : r.msg \in DOMAIN mail /\ r.target \in {None} \cup DOMAIN chat /\ r.tries <= 1
    /\ acks \subseteq DOMAIN mail
    /\ \A c \in DOMAIN chat : chat[c].root \in 0..c - 1
    /\ enq \in {"sweep", "join", "listen"} /\ queue \cup todo \subseteq OwnersMail
    /\ Cardinality(queue) <= QueueMax /\ seen <= Len(mail)
    /\ job.stage \in {"idle", "post", "images", "record", "mark"}
    /\ \A h \in handlers : h.stage \in {"lookup", "insert"}

Fault(kind) == kind \in bound.kinds \ faults /\ faults' = faults \cup {kind} /\ UNCHANGED bound

Init ==
    /\ mail = <<>> /\ rows = {} /\ acks = {} /\ chat = <<>> /\ memory = {}
    /\ up = FALSE /\ seen = 0 /\ enq = "sweep" /\ queue = {} /\ todo = {}
    /\ job = Idle /\ handlers = {}
    /\ delivered = {} /\ faults = {} /\ bound \in Bound

-----------------------------------------------------------------------------
(* Mail to the owner, and what the owner writes in the dashboard. *)

NewMail(to, from, parent, ext, key) ==
    [to |-> to, from |-> from, parent |-> parent, ext |-> ext, key |-> key]

\* OutboxDispatcher._dispatch_mailbox_send and tier1: an agent writes to the
\* owner, in answer to a mail of its own mailbox or not.
AgentWrites(a) ==
    /\ Cardinality(OwnersMail) < bound.agents
    /\ \E parent \in {None} \cup {m \in DOMAIN mail : mail[m].to = a} :
         mail' = Append(mail, NewMail(Owner, a, parent, None, None))
    /\ UNCHANGED <<rows, acks, chat, memory, up, volatile, counts>>

\* send_post: the owner writes to an agent from the dashboard, in answer or not.
DashboardSend(a) ==
    /\ up /\ Cardinality({m \in DOMAIN mail : mail[m].from = Owner /\ mail[m].key = None}) < bound.dashboard
    /\ \E parent \in {None} \cup {m \in DOMAIN mail : mail[m].from = a} :
         mail' = Append(mail, NewMail(a, Owner, parent, None, None))
    /\ UNCHANGED <<rows, acks, chat, memory, up, volatile, counts>>

-----------------------------------------------------------------------------
(* MailboxBroadcaster and OwnerMailEnqueuer. *)

\* lyre serve: prime the broadcaster, start the services.
Boot ==
    /\ ~up /\ up' = TRUE
    /\ (seen' = 0 /\ OwnersMail = {}) \/ (\E m \in OwnersMail : IsLast(m, OwnersMail) /\ seen' = m)
    /\ enq' = "sweep" /\ queue' = {} /\ todo' = {} /\ job' = Idle /\ handlers' = {}
    /\ UNCHANGED <<store, chat, memory, counts>>

Crash ==
    /\ up /\ up' = FALSE /\ Fault("crash")
    /\ seen' = 0 /\ enq' = "sweep" /\ queue' = {} /\ todo' = {} /\ job' = Idle /\ handlers' = {}
    /\ UNCHANGED <<store, chat, memory, delivered>>

\* UNIQUE (kind, external_id) DO NOTHING.
IsRow(kind, m) == \E r \in rows : r.kind = kind /\ r.msg = m
Enqueued(kind, m, target) ==
    IF IsRow(kind, m) THEN rows
    ELSE rows \cup {[kind |-> kind, msg |-> m, target |-> target, done |-> FALSE, tries |-> 0]}

\* list_pending_channel_publish.
Pending(m) == IsOwners(m) /\ ~IsRow("publish", m)

\* ORDER BY id ASC LIMIT n.
Oldest(S, n) == {m \in S : Cardinality({k \in S : k < m}) < n}

\* (slip) the sweep looks behind the broadcaster's watermark only
MSweep ==
    /\ up /\ enq = "sweep" /\ todo = {} /\ enq' = "join"
    /\ todo' = Oldest({m \in DOMAIN mail : Pending(m) /\ m > seen}, SweepCap)
    /\ UNCHANGED <<store, chat, memory, up, seen, queue, job, handlers, counts>>

\* OwnerMailEnqueuer.catch_up.
Sweep ==
    /\ up /\ enq = "sweep" /\ todo = {} /\ enq' = "join"
    /\ todo' = Oldest({m \in DOMAIN mail : Pending(m)}, SweepCap)
    /\ UNCHANGED <<store, chat, memory, up, seen, queue, job, handlers, counts>>

Subscribe ==
    /\ up /\ enq = "join" /\ todo = {} /\ enq' = "listen"
    /\ UNCHANGED <<store, chat, memory, up, seen, queue, todo, job, handlers, counts>>

\* _resolve_reply_to: what the channel calls the parent, if that is recorded.
Answered(m) == IF mail[m].parent = None THEN None ELSE mail[mail[m].parent].ext

\* _enqueue_one.
Enqueue ==
    /\ up
    /\ \E m \in todo : /\ IsFirst(m, todo) /\ todo' = todo \ {m}
                       /\ rows' = Enqueued("publish", m, Answered(m))
    /\ UNCHANGED <<mail, acks, chat, memory, up, seen, enq, queue, job, handlers, counts>>

Take ==
    /\ up /\ enq = "listen" /\ todo = {}
    /\ \E m \in queue : IsFirst(m, queue) /\ todo' = {m} /\ queue' = queue \ {m}
    /\ UNCHANGED <<store, chat, memory, up, seen, enq, job, handlers, counts>>

\* (slip) nothing makes room in a full queue
MPublished(q, new) == q \cup new

\* MailboxBroadcaster._publish: a full queue drops its oldest.
Published(q, new) == {m \in q \cup new : Cardinality({k \in q \cup new : k > m}) < QueueMax}

\* MailboxBroadcaster._loop. Who has not subscribed is told nothing.
Poll ==
    /\ up
    /\ \E m \in OwnersMail : IsLast(m, OwnersMail) /\ m > seen /\ seen' = m
    /\ queue' = IF enq = "listen" THEN Published(queue, {m \in OwnersMail : m > seen}) ELSE queue
    /\ UNCHANGED <<store, chat, memory, up, enq, todo, job, handlers, counts>>

-----------------------------------------------------------------------------
(* OutboxDispatcher. The order of a batch is left open. *)

Pick(r) ==
    /\ up /\ job.stage = "idle" /\ ~r.done
    /\ job' = [row |-> r.msg, stage |-> "post", id |-> None, target |-> r.target, kind |-> r.kind]
    /\ UNCHANGED <<store, chat, memory, up, seen, enq, queue, todo, handlers, counts>>

JobRow == CHOOSE r \in rows : r.kind = job.kind /\ r.msg = job.row

\* (slip) the token tells one attempt from the next
MToken(r) == <<r.msg, r.tries>>

\* publish_owner_mail: text_uuid.
Token(r) == <<r.msg, 0>>

Message(by, about, root, token, at, knew) ==
    [by |-> by, mail |-> about, root |-> root, token |-> token, at |-> at, knew |-> knew]

\* The channel: a reply nests under the root of what it answers, and a token
\* that is known posts nothing more.
RootOf(c) == IF c = None THEN None ELSE IF chat[c].root = None THEN c ELSE chat[c].root
Lands(id) ==
    LET known == {c \in memory : chat[c].token = Token(JobRow)}
    IN  IF known # {}
        THEN id \in known /\ UNCHANGED <<chat, memory>>
        ELSE /\ id = Len(chat) + 1 /\ memory' = memory \cup {id}
             /\ chat' = Append(chat, Message("bot", job.row, RootOf(job.target), Token(JobRow), Nobody, FALSE))

Step(stage) == job' = [job EXCEPT !.stage = stage]
AtJob(stage) == up /\ job.stage = stage /\ UNCHANGED <<acks, up, seen, enq, queue, todo, handlers, delivered>>

\* publish_owner_mail: the card, in the thread of the mail it answers.
PublishOwnerMail ==
    /\ AtJob("post") /\ job.kind = "publish"
    /\ \E id \in 1..Len(chat) + 1 :
          /\ Lands(id)
          /\ job' = [row |-> job.row, stage |-> "images", id |-> id, target |-> job.target, kind |-> job.kind]
    /\ UNCHANGED <<mail, rows, faults, bound>>

\* mark_failed: the post is refused, or it lands and the answer is lost. The
\* row stays for the next batch.
PostFails ==
    /\ AtJob("post") /\ job.kind = "publish" /\ Fault("post")
    /\ UNCHANGED <<chat, memory>> \/ \E id \in 1..Len(chat) + 1 : Lands(id)
    /\ rows' = (rows \ {JobRow}) \cup {[JobRow EXCEPT !.tries = @ + 1]}
    /\ job' = Idle
    /\ UNCHANGED mail

\* The images follow one by one, whatever becomes of each.
PostImages == AtJob("images") /\ Step("record") /\ UNCHANGED <<mail, rows, chat, memory, faults, bound>>

\* set_channel_external_id.
Recording(m, id) == [mail EXCEPT ![m].ext = id]

Record ==
    /\ AtJob("record") /\ Step("mark")
    /\ mail' = Recording(job.row, job.id)
    /\ UNCHANGED <<rows, chat, memory, faults, bound>>

\* publish_reaction: logged when the channel refuses.
PublishReaction ==
    AtJob("post") /\ job.kind = "react" /\ Step("mark") /\ UNCHANGED <<mail, rows, chat, memory, faults, bound>>

MarkDispatched ==
    /\ AtJob("mark") /\ job' = Idle
    /\ rows' = (rows \ {JobRow}) \cup {[JobRow EXCEPT !.done = TRUE]}
    /\ UNCHANGED <<mail, chat, memory, faults, bound>>

PostsOf(m) == {c \in DOMAIN chat : chat[c].mail = m}

\* run_maintenance, with retention_days > 0: a row that was dispatched days ago, longer
\* than the channel knows a token.
Prune(r) ==
    /\ up /\ r.done /\ r.msg # job.row /\ Fault("prune")
    /\ rows' = rows \ {r} /\ memory' = memory \ PostsOf(r.msg)
    /\ UNCHANGED <<mail, acks, chat, up, volatile, delivered>>

\* The channel forgets a token while the row still waits for its next attempt.
Forget(c) ==
    /\ \E r \in rows : r.kind = "publish" /\ r.msg = chat[c].mail /\ ~r.done
    /\ Fault("forget") /\ memory' = memory \ {c}
    /\ UNCHANGED <<store, chat, up, volatile, delivered>>

\* _mailbox_react: the reaction is recorded, then echoed where the channel has
\* the mail, unless the worker dies between.
React(m, dies) ==
    /\ m \in DOMAIN mail /\ ~IsOwners(m) /\ m \notin acks
    /\ acks' = acks \cup {m}
    /\ IF dies THEN Fault("worker") ELSE UNCHANGED <<faults, bound>>
    /\ rows' = IF dies \/ mail[m].ext = None THEN rows ELSE Enqueued("react", m, mail[m].ext)
    /\ UNCHANGED <<mail, chat, memory, up, volatile, delivered>>

-----------------------------------------------------------------------------
(* LarkChannel, inbound. *)

\* find_by_channel_external_id: the mail that the channel calls c.
Known(c) == {m \in DOMAIN mail : c # None /\ mail[m].ext = c}

\* The owner, or somebody else, writes; as an answer to what is there or not.
Say(by, at) ==
    /\ Cardinality({c \in DOMAIN chat : chat[c].by # "bot"}) < bound.chat
    /\ \E c \in {None} \cup DOMAIN chat :
         chat' = Append(chat, Message(by, None, RootOf(c), <<>>, at, Known(RootOf(c)) # {}))
    /\ UNCHANGED <<store, memory, up, volatile, counts>>

\* run, _on_lark_message: the channel pushes an event, perhaps again; the
\* callback returns as soon as the coroutine is scheduled.
Deliver(c) ==
    /\ up /\ chat[c].by # "bot"
    /\ IF c \in delivered THEN Fault("redelivery") ELSE UNCHANGED <<faults, bound>>
    /\ delivered' = delivered \cup {c}
    /\ handlers' = handlers \cup {[n |-> Cardinality(faults'), msg |-> c, stage |-> "lookup", to |-> Nobody, parent |-> None]}
    /\ UNCHANGED <<store, chat, memory, up, seen, enq, queue, todo, job>>

Drop(h) == handlers' = handlers \ {h}
Resolved(h, to, parent) == [n |-> h.n, msg |-> h.msg, stage |-> "insert", to |-> to, parent |-> parent]
InHandler(h, stage) ==
    up /\ h.stage = stage /\ UNCHANGED <<acks, rows, chat, memory, up, seen, enq, queue, todo, job, delivered>>

\* _handle_inbound: thread_recipient.
ThreadRecipient(m) == IF mail[m].to = Owner THEN mail[m].from ELSE mail[m].to

\* (slip) whom the message names comes before the thread
MResolve(m, at) ==
    IF at # Nobody THEN at ELSE IF m # None THEN ThreadRecipient(m) ELSE Dispatcher

\* addressing.resolve: the thread, else whom the message names, else the dispatcher.
Resolve(m, at) ==
    IF m # None THEN ThreadRecipient(m) ELSE IF at # Nobody THEN at ELSE Dispatcher

IsMail(to, c) == \E m \in DOMAIN mail : mail[m].to = to /\ mail[m].key = c

\* Whose message, in which thread, for whom; an event that came before.
Lookup(h) ==
    /\ InHandler(h, "lookup") /\ UNCHANGED <<mail, faults, bound>>
    /\ LET c       == chat[h.msg]
           Goes(m) == LET to == Resolve(m, c.at) IN
                      IF c.by # Owner \/ to \notin Agents \/ IsMail(to, h.msg) THEN Drop(h)
                      ELSE handlers' = (handlers \ {h}) \cup {Resolved(h, to, m)}
       IN  \E m \in IF Known(c.root) = {} THEN {None} ELSE Known(c.root) : Goes(m)

\* _download_images: an image that the channel refuses is left out; a call that
\* raises ends the handler.
DownloadRaises(h) == InHandler(h, "insert") /\ Fault("download") /\ Drop(h) /\ UNCHANGED mail

\* insert_message, ON CONFLICT (recipient, external_id).
Inserted(h) ==
    IF IsMail(h.to, h.msg) THEN mail
    ELSE Append(mail, NewMail(h.to, Owner, h.parent, h.msg, h.msg))

InsertMessage(h) ==
    /\ InHandler(h, "insert")
    /\ mail' = Inserted(h) /\ Drop(h) /\ UNCHANGED <<faults, bound>>

-----------------------------------------------------------------------------
Inbound == \E h \in handlers : Lookup(h) \/ DownloadRaises(h) \/ InsertMessage(h)
Mirror  == Boot \/ Sweep \/ Subscribe \/ Enqueue \/ Take \/ Poll
Publish ==
    \/ PublishOwnerMail \/ PostFails \/ PostImages \/ Record \/ PublishReaction \/ MarkDispatched
    \/ \E r \in rows : Pick(r)

Next ==
    \/ \E a \in Agents : AgentWrites(a) \/ DashboardSend(a)
    \/ Mirror \/ Publish \/ Inbound \/ Crash
    \/ \E r \in rows : Prune(r)
    \/ \E c \in memory : Forget(c)
    \/ \E m \in DOMAIN mail, dies \in BOOLEAN : React(m, dies)
    \/ \E at \in Agents \cup {Nobody} : Say(Owner, at)
    \/ Say("stranger", Nobody)
    \/ \E c \in DOMAIN chat : Deliver(c)

Spec == Init /\ [][Next]_vars

\* Each service is a task of its own; the process is started again.
Fairness ==
    /\ WF_vars(Boot) /\ WF_vars(Sweep) /\ WF_vars(Subscribe) /\ WF_vars(Enqueue)
    /\ WF_vars(Take) /\ WF_vars(Poll) /\ WF_vars(Publish)
FairSpec == Spec /\ Fairness

-----------------------------------------------------------------------------
Posted(m)  == PostsOf(m) # {}
Waiting(m) == m \in DOMAIN mail /\ IsOwners(m) /\ ~Posted(m)
Held(m)    == IsRow("publish", m) \/ m \in todo \cup queue

\* The broadcaster has passed the mail, and nobody has it.
Missed(m) == up /\ enq # "sweep" /\ m <= seen /\ Waiting(m) /\ ~Held(m)

\* What waits when the process starts is swept and published; what comes later is
\* published or was missed: told to nobody, or dropped from a full queue.
OwnerMailGetsOut ==
    \A m \in 1..MaxMail :
        /\ (Waiting(m) /\ ~up) ~> Posted(m)
        /\ Waiting(m) ~> (Posted(m) \/ Missed(m))

\* No crash, retry or sweep makes a second post of a mail, but for two reasons: the
\* row was tried again after the channel had forgotten the token, or maintenance
\* deleted it. Even then the channel has forgotten the one or the other.
NoDoublePost ==
    \A m \in OwnersMail : \A c, d \in PostsOf(m) :
        \/ c = d
        \/ {"forget", "prune"} \cap faults # {} /\ ~({c, d} \subseteq memory)

\* Deliveries of one message, however they overlap, make one mail per reader.
OneMailPerReader ==
    \A m, n \in DOMAIN mail :
        (mail[m].key # None /\ mail[m].key = mail[n].key /\ mail[m].to = mail[n].to) => m = n

\* Whatever is repeated, the owner reads a mail once, but for those two reasons, and
\* an agent a message once.
NothingTwice == NoDoublePost /\ OneMailPerReader

\* owner_mail_enqueuer.py 9-23: one row per mail, so that emitting a mail again is a
\* no-op, and the sweep takes what is not enqueued yet. Hence no mail is posted again
\* that was published; the channel's memory is not what this rests on.
PublishedOnce ==
    "forget" \notin faults => \A m \in OwnersMail : \A c, d \in PostsOf(m) : c = d

\* An answer in the thread of a mail whose post was recorded when the owner wrote
\* goes to the agent of that mail, as an answer to it.
ReplyFindsItsAgent ==
    \A x, m \in DOMAIN mail :
        /\ mail[x].key # None
        /\ chat[mail[x].key].knew /\ chat[mail[x].key].root = mail[m].ext
        => /\ mail[x].parent = m
           /\ mail[x].to = IF IsOwners(m) THEN mail[m].from ELSE mail[m].to

\* What an agent answers to a message of the chat is posted in its thread.
AnswerIsInItsThread ==
    \A c \in DOMAIN chat :
        LET m == chat[c].mail IN
        (m # None /\ mail[m].parent # None /\ mail[mail[m].parent].key # None)
            => chat[c].root = RootOf(mail[mail[m].parent].key)

Threads == ReplyFindsItsAgent /\ AnswerIsInItsThread

=============================================================================
