------------------------- MODULE OwnerChannelProofs -------------------------
(***************************************************************************)
(* Proofs of what OwnerChannel states, for every set of agents, every      *)
(* amount of mail and chat, and every combination of faults: nothing is    *)
(* inserted twice, nor posted twice but by a retry that is too late or once *)
(* maintenance deleted the row; replies and answers keep to their thread.  *)
(***************************************************************************)
EXTENDS OwnerChannel, SequenceTheorems, FiniteSetTheorems, FunctionTheorems, TLAPS

(* Sequences and finite sets *)

\* A row is added at the end.
LEMMA SeqAdd ==
  ASSUME NEW S, NEW s \in Seq(S), NEW e \in S
  PROVE  /\ Append(s, e) \in Seq(S)
         /\ DOMAIN Append(s, e) = DOMAIN s \cup {Len(s) + 1}
         /\ Len(Append(s, e)) = Len(s) + 1
         /\ Len(s) + 1 \notin DOMAIN s
         /\ Append(s, e)[Len(s) + 1] = e
         /\ \A j \in DOMAIN s : Append(s, e)[j] = s[j]
  OBVIOUS

\* A row of a table is replaced.
LEMMA SeqSet ==
  ASSUME NEW S, NEW s \in Seq(S), NEW i \in DOMAIN s, NEW e \in S
  PROVE  /\ [s EXCEPT ![i] = e] \in Seq(S)
         /\ DOMAIN [s EXCEPT ![i] = e] = DOMAIN s
         /\ Len([s EXCEPT ![i] = e]) = Len(s)
         /\ [s EXCEPT ![i] = e][i] = e
         /\ \A j \in DOMAIN s : j # i => [s EXCEPT ![i] = e][j] = s[j]
  BY ExceptSeq

\* The rows that satisfy a condition are finitely many.
LEMMA RowsFinite ==
  ASSUME NEW S, NEW s \in Seq(S), NEW T \in SUBSET DOMAIN s
  PROVE  IsFiniteSet(T) /\ Cardinality(T) \in Nat
<1>1. DOMAIN s = 1..Len(s) /\ Len(s) \in Nat
  OBVIOUS
<1>2. IsFiniteSet(1..Len(s))
  BY <1>1, FS_Interval
<1> QED
  BY <1>1, <1>2, FS_Subset, FS_CardinalityType

\* The n greatest of a set of numbers are n at most.
LEMMA Newest ==
  ASSUME NEW S \in SUBSET Nat, IsFiniteSet(S), NEW n \in Nat
  PROVE  LET T == {m \in S : Cardinality({k \in S : k > m}) < n} IN
         IsFiniteSet(T) /\ Cardinality(T) <= n
<1> DEFINE above(m) == {k \in S : k > m}
           T == {m \in S : Cardinality(above(m)) < n}
           f == [m \in T |-> Cardinality(above(m))]
<1>1. \A m \in S : IsFiniteSet(above(m)) /\ Cardinality(above(m)) \in Nat
  <2> SUFFICES ASSUME NEW m \in S PROVE IsFiniteSet(above(m)) /\ Cardinality(above(m)) \in Nat
    OBVIOUS
  <2>1. above(m) \in SUBSET S
    OBVIOUS
  <2> QED
    BY <2>1, FS_Subset, FS_CardinalityType
<1>2. ASSUME NEW m \in S, NEW k \in S, m < k
      PROVE  Cardinality(above(m)) # Cardinality(above(k))
  <2>1. \A x \in S : x \in Nat
    OBVIOUS
  <2>2. \A x \in S : x > k => x > m
    BY <1>2, <2>1
  <2>3. k > m /\ ~(k > k)
    BY <1>2, <2>1
  <2>4. above(k) \in SUBSET above(m) /\ above(k) # above(m)
    <3>1. above(k) \in SUBSET above(m) /\ k \in above(m) /\ k \notin above(k)
      BY <2>2, <2>3
    <3> QED
      BY <3>1
  <2> HIDE DEF above
  <2> QED
    BY <1>1, <2>4, FS_Subset
<1>3. f \in Injection(T, 0..n - 1)
  <2>1. f \in [T -> 0..n - 1]
    <3>1. \A m \in T : Cardinality(above(m)) \in Nat /\ Cardinality(above(m)) < n
      BY <1>1
    <3> HIDE DEF T, above
    <3>2. \A m \in T : Cardinality(above(m)) \in 0..n - 1
      BY <3>1
    <3> QED
      BY <3>2
  <2>2. ASSUME NEW a \in T, NEW b \in T, f[a] = f[b] PROVE a = b
    <3>1. a \in S /\ b \in S /\ Cardinality(above(a)) = Cardinality(above(b))
      BY <2>2
    <3>2. a \in Nat /\ b \in Nat
      BY <3>1
    <3>3. ~(a < b) /\ ~(b < a)
      BY <1>2, <3>1
    <3> QED
      BY <3>2, <3>3
  <2> HIDE DEF f, T
  <2> QED
    BY <2>1, <2>2, Fun_IsInj
<1>4. IsFiniteSet(0..n - 1) /\ Cardinality(0..n - 1) = n
  BY FS_Interval
<1> HIDE DEF f, T
<1>5. IsFiniteSet(T) /\ Cardinality(T) <= n
  BY <1>3, <1>4, FS_Injection
<1> QED
  BY <1>5 DEF T

-----------------------------------------------------------------------------

USE OwnerChannelAssumption

Person  == Agents \cup {Owner}
MailRow == [to : Person, from : Person, parent : Nat, ext : Nat, key : Nat]
Tokens  == {<<>>} \cup (Nat \X {0})
ChatRow == [by : {"bot", Owner, "stranger"}, mail : Nat, root : Nat, token : Tokens,
            at : Agents \cup {Nobody}, knew : BOOLEAN]
Kind    == {"publish", "react"}
OutRow  == [kind : Kind, msg : Nat, target : Nat, done : BOOLEAN, tries : Nat]
Stage   == {"idle", "post", "images", "record", "mark"}
Job     == [row : Nat, stage : Stage, id : Nat, target : Nat, kind : Kind]
Handler == [n : {Cardinality(S) : S \in SUBSET FaultKinds}, msg : Nat,
            stage : {"lookup", "insert"}, to : Agents \cup {Nobody}, parent : Nat]

\* The types of the tables and of the hands of the services.
Types ==
    /\ mail \in Seq(MailRow) /\ chat \in Seq(ChatRow) /\ rows \in SUBSET OutRow
    /\ acks \subseteq DOMAIN mail /\ memory \subseteq DOMAIN chat /\ delivered \subseteq DOMAIN chat
    /\ job \in Job /\ handlers \in SUBSET Handler
    /\ faults \subseteq FaultKinds /\ bound \in Bound
    /\ enq \in {"sweep", "join", "listen"} /\ seen \in 0..Len(mail)
    /\ queue \cup todo \subseteq OwnersMail

\* What refers to a mail or a message refers to one that is there; threads are flat.
MailRefs ==
    \A m \in DOMAIN mail : /\ mail[m].parent \in 0..m - 1
                           /\ mail[m].ext \in {None} \cup DOMAIN chat
                           /\ mail[m].key \in {None} \cup DOMAIN chat
ChatRefs ==
    \A c \in DOMAIN chat :
        /\ chat[c].root \in 0..c - 1 /\ chat[c].mail \in {None} \cup DOMAIN mail
        /\ chat[c].root # None => chat[chat[c].root].root = None
RowRefs ==
    \A r \in rows : r.msg \in DOMAIN mail /\ r.target \in {None} \cup DOMAIN chat
JobRefs ==
    /\ job.target \in {None} \cup DOMAIN chat
    /\ job.stage \in {"images", "record"} => job.id \in DOMAIN chat
    /\ job.stage # "idle" =>
          job.row \in DOMAIN mail /\ \E r \in rows : r.kind = job.kind /\ r.msg = job.row
HandlerRefs ==
    \A h \in handlers : h.msg \in DOMAIN chat /\ h.parent \in {None} \cup DOMAIN mail

Refs == MailRefs /\ ChatRefs /\ RowRefs /\ JobRefs /\ HandlerRefs

\* One refused post is all there is.
Tries == /\ \A r \in rows : r.tries <= 1
         /\ "post" \notin faults => \A r \in rows : r.tries = 0

\* What the bot posts is mail of the owner, under the token of that mail.
Posts ==
    /\ \A c \in DOMAIN chat :
          /\ chat[c].by = "bot" <=> chat[c].mail # None
          /\ chat[c].by = "bot" => chat[c].token = <<chat[c].mail, 0>> /\ IsOwners(chat[c].mail)
    /\ \A r \in rows : r.kind = "publish" <=> IsOwners(r.msg)
    /\ job.stage # "idle" => (job.kind = "publish" <=> IsOwners(job.row))
    /\ job.stage \in {"images", "record"} =>
          /\ job.kind = "publish" /\ job.id \in DOMAIN chat /\ chat[job.id].mail = job.row
    /\ \A c \in memory : chat[c].by = "bot"

\* What the channel calls a mail: the message it came from, or the post that was recorded.
Names ==
    /\ \A m \in DOMAIN mail :
          /\ mail[m].key # None => /\ mail[m].ext = mail[m].key /\ ~IsOwners(m)
                                   /\ chat[mail[m].key].by # "bot"
          /\ mail[m].key = None /\ mail[m].ext # None => chat[mail[m].ext].mail = m
    /\ \A h \in handlers : chat[h.msg].by # "bot"

\* A message outside any thread goes to whom it names, or else to the dispatcher.
Named(at) == IF at # Nobody THEN at ELSE Dispatcher
Direct ==
    /\ \A m \in DOMAIN mail : mail[m].key # None /\ chat[mail[m].key].root = None =>
          mail[m].to = Named(chat[mail[m].key].at)
    /\ \A h \in handlers : h.stage = "insert" /\ chat[h.msg].root = None =>
          h.to = Named(chat[h.msg].at)

HandlersOf == \A h \in handlers : h.stage = "insert" => h.to \in Agents

\* The row and the job of an answer carry the message that is answered.
Right(m, target) ==
    mail[m].parent # None /\ mail[mail[m].parent].key # None => target = mail[mail[m].parent].key
Targets ==
    /\ \A r \in rows : r.kind = "publish" => Right(r.msg, r.target)
    /\ job.stage # "idle" /\ job.kind = "publish" => Right(job.row, job.target)

Recorded(c) == \E m \in DOMAIN mail : mail[m].ext = c

\* A post that the channel has forgotten and that is in nobody's hands. It is never
\* recorded again.
Lost(c) == /\ c \notin memory
           /\ ~(job.stage \in {"images", "record"} /\ job.id = c)

\* The channel never knows two posts of one mail.
KnownOnce ==
    \A c, d \in DOMAIN chat : (chat[c].mail # None /\ chat[c].mail = chat[d].mail /\ {c, d} \subseteq memory) => c = d

\* It knows every post, unless a retry came too late or a row was deleted.
Remembers ==
    {"forget", "prune"} \cap faults = {} => \A c \in DOMAIN chat : chat[c].by = "bot" => c \in memory

\* While a post waits to be recorded, the channel knows no other of that mail.
OnePost ==
    job.stage \in {"images", "record"} =>
        \A c \in memory : chat[c].mail = job.row => c = job.id

\* What was known when the owner wrote still is, unless a later post took its place.
Knew ==
    \A k \in DOMAIN chat : chat[k].knew =>
        /\ chat[k].root # None
        /\ \/ Recorded(chat[k].root)
           \/ chat[chat[k].root].by = "bot" /\ Lost(chat[k].root)

\* A handler that has looked up the thread of a reply will answer the right mail.
Looked ==
    \A h \in handlers, m \in DOMAIN mail :
        /\ h.stage = "insert" /\ chat[h.msg].knew /\ chat[h.msg].root = mail[m].ext
        => h.parent = m /\ h.to = ThreadRecipient(m)

\* The subscription holds what it may.
Room == Cardinality(queue) <= QueueMax

IInv == /\ Types /\ Room /\ Refs /\ Tries /\ Posts /\ Names /\ Direct /\ HandlersOf /\ Targets
        /\ KnownOnce /\ Remembers /\ OnePost /\ Knew /\ Looked /\ OneMailPerReader /\ Threads

-----------------------------------------------------------------------------
(* The rows of the tables. *)

\* What a row has in its columns.
LEMMA Columns ==
  /\ \A e \in MailRow : /\ e.to \in Person /\ e.from \in Person
                        /\ e.parent \in Nat /\ e.ext \in Nat /\ e.key \in Nat
  /\ \A c \in ChatRow : /\ c.by \in {"bot", Owner, "stranger"} /\ c.mail \in Nat /\ c.root \in Nat
                        /\ c.token \in Tokens /\ c.at \in Agents \cup {Nobody} /\ c.knew \in BOOLEAN
  /\ \A r \in OutRow : /\ r.kind \in Kind /\ r.msg \in Nat /\ r.target \in Nat
                       /\ r.done \in BOOLEAN /\ r.tries \in Nat
  /\ \A j \in Job : /\ j.row \in Nat /\ j.stage \in Stage /\ j.id \in Nat
                    /\ j.target \in Nat /\ j.kind \in Kind
  /\ \A h \in Handler : /\ h.msg \in Nat /\ h.stage \in {"lookup", "insert"}
                        /\ h.to \in Agents \cup {Nobody} /\ h.parent \in Nat
BY DEF MailRow, ChatRow, OutRow, Job, Handler

\* The post of a mail is recorded.
Noted(e, id) == [e EXCEPT !.ext = id]
LEMMA MailNoted ==
  ASSUME NEW e \in MailRow, NEW id \in Nat
  PROVE  /\ Noted(e, id) \in MailRow
         /\ Noted(e, id).to = e.to /\ Noted(e, id).from = e.from
         /\ Noted(e, id).parent = e.parent /\ Noted(e, id).key = e.key /\ Noted(e, id).ext = id
BY DEF MailRow, Noted

\* A new row of the outbox, and one that is tried again or done.
LEMMA RowMade ==
  ASSUME NEW kind \in Kind, NEW m \in Nat, NEW target \in Nat
  PROVE  LET r == [kind |-> kind, msg |-> m, target |-> target, done |-> FALSE, tries |-> 0] IN
         r \in OutRow /\ r.kind = kind /\ r.msg = m /\ r.target = target /\ r.tries = 0
BY DEF OutRow

\* The same row after a post that was refused.
LEMMA RowTried ==
  ASSUME NEW r \in OutRow
  PROVE  LET s == [r EXCEPT !.tries = @ + 1] IN
         /\ s \in OutRow
         /\ s.kind = r.kind /\ s.msg = r.msg /\ s.target = r.target /\ s.tries = r.tries + 1
BY DEF OutRow

\* The same row once it is published.
LEMMA RowDone ==
  ASSUME NEW r \in OutRow
  PROVE  LET s == [r EXCEPT !.done = TRUE] IN
         /\ s \in OutRow
         /\ s.kind = r.kind /\ s.msg = r.msg /\ s.target = r.target /\ s.tries = r.tries
BY DEF OutRow

\* What the dispatcher is at.
LEMMA JobMade ==
  ASSUME NEW row \in Nat, NEW stage \in Stage, NEW id \in Nat, NEW target \in Nat, NEW kind \in Kind
  PROVE  LET j == [row |-> row, stage |-> stage, id |-> id, target |-> target, kind |-> kind] IN
         /\ j \in Job
         /\ j.row = row /\ j.stage = stage /\ j.id = id /\ j.target = target /\ j.kind = kind
BY DEF Job

\* The dispatcher is at another stage of the same row.
At(j, stage) == [j EXCEPT !.stage = stage]
LEMMA JobMoves ==
  ASSUME NEW j \in Job, NEW stage \in Stage
  PROVE  /\ At(j, stage) \in Job
         /\ At(j, stage).row = j.row /\ At(j, stage).stage = stage /\ At(j, stage).id = j.id
         /\ At(j, stage).target = j.target /\ At(j, stage).kind = j.kind
BY DEF Job, At

\* The dispatcher between two rows.
LEMMA JobRests == Idle \in Job /\ Idle.stage = "idle" /\ Idle.target = None
BY DEF Idle, Job, Stage, Kind, None

\* A handler of an event.
LEMMA HandlerMade ==
  ASSUME NEW n \in {Cardinality(S) : S \in SUBSET FaultKinds}, NEW c \in Nat
  PROVE  LET h == [n |-> n, msg |-> c, stage |-> "lookup", to |-> Nobody, parent |-> None] IN
         h \in Handler /\ h.msg = c /\ h.stage = "lookup" /\ h.parent = None
BY DEF Handler, None

-----------------------------------------------------------------------------
\* The row that the dispatcher is at is there.
LEMMA JobRowIs ==
  ASSUME JobRefs, job.stage # "idle"
  PROVE  JobRow \in rows /\ JobRow.kind = job.kind /\ JobRow.msg = job.row
BY Zenon DEF JobRefs, JobRow


(* What a step does to the tables. *)

\* An agent, or the owner in the dashboard, writes a mail.
Plain ==
    /\ \E e \in MailRow : /\ e.parent \in {None} \cup DOMAIN mail /\ e.ext = None /\ e.key = None
                          /\ mail' = Append(mail, e)
    /\ UNCHANGED <<rows, acks, chat, memory, up, volatile, counts>>

\* Nothing is written; rows are pruned, posts forgotten, handlers and the dispatcher stop.
Fewer ==
    /\ UNCHANGED <<mail, chat, acks, delivered, bound>> /\ faults \subseteq faults'
    /\ memory' \subseteq memory /\ rows' \subseteq rows /\ handlers' \subseteq handlers
    /\ job' = Idle \/ (job' = job /\ \A r \in rows : r.msg = job.row => r \in rows')

\* Every step is one of these.
StepKind ==
    \/ Plain \/ Fewer \/ Enqueue \/ \E m \in DOMAIN mail, dies \in BOOLEAN : React(m, dies)
    \/ (\E r \in rows : Pick(r)) \/ PublishOwnerMail \/ PostFails \/ PostImages \/ Record
    \/ PublishReaction \/ MarkDispatched
    \/ (\E by \in {Owner, "stranger"}, at \in Agents \cup {Nobody} : Say(by, at))
    \/ (\E c \in DOMAIN chat : Deliver(c))
    \/ \E h \in handlers : Lookup(h) \/ InsertMessage(h)

\* The tables see a step of the specification as one of those.
LEMMA StepIs ==
  ASSUME Types, [Next]_vars
  PROVE  StepKind
<1> USE DEF store, volatile, counts, vars, Fault
<1>1. ASSUME NEW a \in Agents, AgentWrites(a) \/ DashboardSend(a) PROVE Plain
  <2>1. a \in Person /\ Owner \in Person /\ None \in Nat /\ DOMAIN mail \subseteq Nat
    BY DEF Types, Person, None
  <2>2. ASSUME NEW to \in Person, NEW from \in Person, NEW parent \in {None} \cup DOMAIN mail
        PROVE  LET e == NewMail(to, from, parent, None, None) IN
               /\ e \in MailRow
               /\ e.parent \in {None} \cup DOMAIN mail /\ e.ext = None /\ e.key = None
    BY <2>1 DEF NewMail, MailRow
  <2>3. CASE AgentWrites(a)
    <3>1. PICK parent \in {None} \cup DOMAIN mail : mail' = Append(mail, NewMail(Owner, a, parent, None, None))
      BY <2>3 DEF AgentWrites
    <3> QED
      BY <2>1, <2>2, <2>3, <3>1 DEF AgentWrites, Plain
  <2>4. CASE DashboardSend(a)
    <3>1. PICK parent \in {None} \cup DOMAIN mail : mail' = Append(mail, NewMail(a, Owner, parent, None, None))
      BY <2>4 DEF DashboardSend
    <3> QED
      BY <2>1, <2>2, <2>4, <3>1 DEF DashboardSend, Plain
  <2> QED
    BY <1>1, <2>3, <2>4
<1>2. CASE Boot \/ Sweep \/ Subscribe \/ Take \/ Poll \/ Crash
  BY <1>2 DEF Boot, Sweep, Subscribe, Take, Poll, Crash, StepKind, Fewer
<1>3. CASE \E r \in rows : Prune(r)
  BY <1>3 DEF Prune, StepKind, Fewer
<1>4. CASE \E c \in memory : Forget(c)
  BY <1>4 DEF Forget, StepKind, Fewer
<1>5. CASE \E h \in handlers : DownloadRaises(h)
  BY <1>5 DEF DownloadRaises, InHandler, Drop, StepKind, Fewer
<1>6. CASE UNCHANGED vars
  BY <1>6 DEF StepKind, Fewer
<1>7. CASE \E at \in Agents \cup {Nobody} : Say(Owner, at) \/ Say("stranger", Nobody)
  BY <1>7 DEF StepKind
<1>8. CASE \E a \in Agents : AgentWrites(a) \/ DashboardSend(a)
  BY <1>1, <1>8 DEF StepKind
<1> QED
  BY <1>2, <1>3, <1>4, <1>5, <1>6, <1>7, <1>8
  DEF Next, Mirror, Publish, Inbound, StepKind

-----------------------------------------------------------------------------
(* The types. *)

\* What the channel nests under is no answer itself.
LEMMA RootIs ==
  ASSUME Types, ChatRefs, NEW c \in {None} \cup DOMAIN chat
  PROVE  /\ RootOf(c) \in {None} \cup DOMAIN chat
         /\ RootOf(c) # None => chat[RootOf(c)].root = None
<1>1. CASE c = None
  BY <1>1 DEF RootOf
<1>2. CASE c # None
  <2>1. c \in DOMAIN chat /\ DOMAIN chat = 1..Len(chat) /\ Len(chat) \in Nat
    BY <1>2 DEF Types
  <2>2. /\ chat[c].root \in 0..c - 1
        /\ chat[c].root # None => chat[chat[c].root].root = None
    BY <2>1 DEF ChatRefs
  <2>3. chat[c].root \in {None} \cup DOMAIN chat
    BY <2>1, <2>2 DEF None
  <2> QED
    BY <1>2, <2>1, <2>2, <2>3 DEF RootOf
<1> QED
  BY <1>1, <1>2

\* A post lands where the channel nests it, or is known and changes nothing.
LEMMA LandsIs ==
  ASSUME Types, Refs, job.stage = "post", NEW id \in 1..Len(chat) + 1, Lands(id)
  PROVE  LET e == Message("bot", job.row, RootOf(job.target), <<job.row, 0>>, Nobody, FALSE) IN
         /\ RootOf(job.target) \in {None} \cup DOMAIN chat
         /\ RootOf(job.target) # None => chat[RootOf(job.target)].root = None
         /\ \/ /\ id \in memory /\ chat[id].token = <<job.row, 0>> /\ UNCHANGED <<chat, memory>>
            \/ /\ id = Len(chat) + 1 /\ memory' = memory \cup {id} /\ chat' = Append(chat, e)
               /\ e \in ChatRow
               /\ e.by = "bot" /\ e.mail = job.row /\ e.root = RootOf(job.target)
               /\ e.token = <<job.row, 0>> /\ ~e.knew
               /\ \A c \in memory : chat[c].token # <<job.row, 0>>
<1> DEFINE e == Message("bot", job.row, RootOf(job.target), <<job.row, 0>>, Nobody, FALSE)
<1>1. Token(JobRow) = <<job.row, 0>>
  BY JobRowIs DEF Token, Refs
<1>2. job.target \in {None} \cup DOMAIN chat /\ job.row \in Nat
  BY Columns DEF Types, Refs, JobRefs
<1>3. /\ RootOf(job.target) \in {None} \cup DOMAIN chat
      /\ RootOf(job.target) # None => chat[RootOf(job.target)].root = None
  BY <1>2, RootIs DEF Refs
<1>4. <<job.row, 0>> \in Tokens /\ RootOf(job.target) \in Nat
  BY <1>2, <1>3 DEF Tokens, Types, None
<1>5. e \in ChatRow /\ e.by = "bot" /\ e.mail = job.row /\ e.root = RootOf(job.target)
      /\ e.token = <<job.row, 0>> /\ e.knew = FALSE
  BY <1>2, <1>4 DEF Message, ChatRow
<1> HIDE DEF e
<1>6. CASE {c \in memory : chat[c].token = Token(JobRow)} # {}
  BY <1>1, <1>3, <1>6 DEF Lands
<1>7. CASE {c \in memory : chat[c].token = Token(JobRow)} = {}
  <2>1. /\ id = Len(chat) + 1 /\ memory' = memory \cup {id} /\ chat' = Append(chat, e)
        /\ \A c \in memory : chat[c].token # <<job.row, 0>>
    BY <1>1, <1>7 DEF Lands, e
  <2> QED
    BY <1>3, <1>5, <2>1 DEF e
<1> QED
  BY <1>6, <1>7


\* A mail is added; a post is recorded; nothing else happens to a mail.
Grows(e) ==
    /\ DOMAIN mail' = DOMAIN mail \cup {Len(mail) + 1} /\ Len(mail) + 1 \notin DOMAIN mail
    /\ mail'[Len(mail) + 1] = e /\ \A m \in DOMAIN mail : mail'[m] = mail[m]
AddsPlain ==
    /\ Plain
    /\ \E e \in MailRow : /\ Grows(e) /\ e.parent \in {None} \cup DOMAIN mail
                          /\ e.ext = None /\ e.key = None
AddsReceived(h) ==
    /\ h.stage = "insert" /\ ~IsMail(h.to, h.msg) /\ handlers' = handlers \ {h}
    /\ UNCHANGED <<rows, chat, memory, job, faults>>
    /\ \E e \in MailRow : /\ Grows(e) /\ e.to = h.to /\ e.from = Owner /\ e.parent = h.parent
                          /\ e.ext = h.msg /\ e.key = h.msg
NotesPost ==
    /\ job.stage = "record" /\ job.row \in DOMAIN mail /\ Record
    /\ DOMAIN mail' = DOMAIN mail /\ mail'[job.row].ext = job.id
    /\ \A m \in DOMAIN mail : m # job.row => mail'[m] = mail[m]

MailKept ==
    /\ DOMAIN mail \subseteq DOMAIN mail' /\ mail' \in Seq(MailRow)
    /\ \A m \in DOMAIN mail : /\ mail'[m].to = mail[m].to /\ mail'[m].from = mail[m].from
                              /\ mail'[m].parent = mail[m].parent /\ mail'[m].key = mail[m].key

\* A step keeps every mail, and adds or names one at most.
LEMMA MailIs ==
  ASSUME Types, Refs, HandlersOf, StepKind
  PROVE  /\ MailKept
         /\ UNCHANGED mail \/ AddsPlain \/ (\E h \in handlers : AddsReceived(h)) \/ NotesPost
<1>1. /\ Len(mail) \in Nat /\ DOMAIN mail = 1..Len(mail)
      /\ \A m \in DOMAIN mail : mail[m] \in MailRow
  BY DEF Types
<1>2. CASE UNCHANGED mail
  BY <1>2, <1>1 DEF MailKept, Types
<1>3. ASSUME NEW e \in MailRow, mail' = Append(mail, e)
      PROVE  MailKept /\ Grows(e)
  BY <1>3, <1>1, SeqAdd DEF MailKept, Grows, Types
<1>4. CASE Plain
  BY <1>3, <1>4 DEF Plain, AddsPlain
<1>5. ASSUME NEW h \in handlers, InsertMessage(h), ~ UNCHANGED mail
      PROVE  MailKept /\ AddsReceived(h)
  <2>1. /\ h.stage = "insert" /\ ~IsMail(h.to, h.msg) /\ handlers' = handlers \ {h}
        /\ UNCHANGED <<rows, chat, memory, job, faults>>
        /\ mail' = Append(mail, NewMail(h.to, Owner, h.parent, h.msg, h.msg))
    BY <1>5 DEF InsertMessage, InHandler, Inserted, Drop
  <2>2. h.to \in Person /\ Owner \in Person /\ h.parent \in Nat /\ h.msg \in Nat
    BY <2>1, Columns DEF HandlersOf, Types, Person
  <2>3. PICK e \in MailRow : /\ mail' = Append(mail, e) /\ e.to = h.to /\ e.from = Owner
                             /\ e.parent = h.parent /\ e.ext = h.msg /\ e.key = h.msg
    <3>1. LET e == NewMail(h.to, Owner, h.parent, h.msg, h.msg) IN
          /\ e \in MailRow /\ e.to = h.to /\ e.from = Owner
          /\ e.parent = h.parent /\ e.ext = h.msg /\ e.key = h.msg
      BY <2>2 DEF NewMail, MailRow
    <3> QED
      BY <2>1, <3>1
  <2> QED
    BY <1>3, <2>1, <2>3 DEF AddsReceived
<1>6. CASE Record
  <2>1. job.stage = "record" /\ mail' = [mail EXCEPT ![job.row] = Noted(mail[job.row], job.id)]
    BY <1>6 DEF Record, AtJob, Recording, Noted
  <2>2. job.row \in DOMAIN mail /\ job.id \in Nat /\ mail[job.row] \in MailRow
    BY <2>1, <1>1, Columns DEF Refs, JobRefs, Types
  <2>3. PICK e \in MailRow : /\ e = Noted(mail[job.row], job.id) /\ e.to = mail[job.row].to
                             /\ e.from = mail[job.row].from /\ e.parent = mail[job.row].parent
                             /\ e.key = mail[job.row].key /\ e.ext = job.id
    BY <2>2, MailNoted
  <2>4. mail' = [mail EXCEPT ![job.row] = e]
    BY <2>1, <2>3
  <2>5. /\ mail' \in Seq(MailRow) /\ DOMAIN mail' = DOMAIN mail /\ mail'[job.row] = e
        /\ \A m \in DOMAIN mail : m # job.row => mail'[m] = mail[m]
    BY <2>2, <2>4, SeqSet DEF Types
  <2> QED
    BY <1>6, <2>1, <2>2, <2>3, <2>5 DEF NotesPost, MailKept
<1> QED
  BY <1>2, <1>4, <1>5, <1>6 DEF StepKind, Fewer, Enqueue, React, Pick, PublishOwnerMail, PostFails,
     PostImages, PublishReaction, MarkDispatched, Say, Deliver, Lookup, store, Fault

\* A message is added to the chat: a post of the bot, or what somebody writes.
ChatGrows(e) ==
    /\ DOMAIN chat' = DOMAIN chat \cup {Len(chat) + 1} /\ Len(chat) + 1 \notin DOMAIN chat
    /\ chat'[Len(chat) + 1] = e /\ \A c \in DOMAIN chat : chat'[c] = chat[c]
AddsPost ==
    /\ PublishOwnerMail \/ PostFails
    /\ memory' = memory \cup {Len(chat) + 1} /\ UNCHANGED <<mail, handlers>>
    /\ \A c \in memory : chat[c].token # <<job.row, 0>>
    /\ \E e \in ChatRow : /\ ChatGrows(e) /\ e.by = "bot" /\ e.mail = job.row /\ e.root = RootOf(job.target)
                          /\ e.token = <<job.row, 0>> /\ ~e.knew
AddsWord ==
    /\ UNCHANGED <<mail, rows, memory, job, handlers, faults>>
    /\ \E e \in ChatRow : /\ ChatGrows(e) /\ e.by # "bot" /\ e.mail = None /\ e.root \in {None} \cup DOMAIN chat
                          /\ e.root # None => chat[e.root].root = None
                          /\ e.knew => Known(e.root) # {}

ChatKept ==
    /\ DOMAIN chat \subseteq DOMAIN chat' /\ chat' \in Seq(ChatRow)
    /\ \A c \in DOMAIN chat : chat'[c] = chat[c]

\* A step keeps every message of the chat, and adds one at most.
LEMMA ChatIs ==
  ASSUME Types, Refs, StepKind
  PROVE  /\ ChatKept
         /\ UNCHANGED chat \/ AddsPost \/ AddsWord
<1>1. /\ Len(chat) \in Nat /\ DOMAIN chat = 1..Len(chat)
      /\ \A c \in DOMAIN chat : chat[c] \in ChatRow
  BY DEF Types
<1>2. CASE UNCHANGED chat
  BY <1>2, <1>1 DEF ChatKept, Types
<1>3. ASSUME NEW e \in ChatRow, chat' = Append(chat, e)
      PROVE  ChatKept /\ ChatGrows(e)
  BY <1>3, <1>1, SeqAdd DEF ChatKept, ChatGrows, Types
<1>4. CASE (PublishOwnerMail \/ PostFails) /\ ~ UNCHANGED chat
  <2>1. PICK id \in 1..Len(chat) + 1 : Lands(id)
    BY <1>4 DEF PublishOwnerMail, PostFails
  <2>2. job.stage = "post" /\ UNCHANGED <<mail, handlers>>
    BY <1>4 DEF PublishOwnerMail, PostFails, AtJob
  <2>3. PICK e \in ChatRow :
            /\ id = Len(chat) + 1 /\ memory' = memory \cup {id} /\ chat' = Append(chat, e)
            /\ e.by = "bot" /\ e.mail = job.row /\ e.root = RootOf(job.target)
            /\ e.token = <<job.row, 0>> /\ ~e.knew
            /\ \A c \in memory : chat[c].token # <<job.row, 0>>
    BY <1>4, <2>1, <2>2, LandsIs
  <2> QED
    BY <1>3, <1>4, <2>2, <2>3 DEF AddsPost
<1>5. ASSUME NEW by \in {Owner, "stranger"}, NEW at \in Agents \cup {Nobody}, Say(by, at)
      PROVE  ChatKept /\ AddsWord
  <2>1. PICK c \in {None} \cup DOMAIN chat :
            chat' = Append(chat, Message(by, None, RootOf(c), <<>>, at, Known(RootOf(c)) # {}))
    BY <1>5 DEF Say
  <2>2. /\ RootOf(c) \in {None} \cup DOMAIN chat
        /\ RootOf(c) # None => chat[RootOf(c)].root = None
    BY RootIs DEF Refs
  <2>3. None \in Nat /\ RootOf(c) \in Nat /\ <<>> \in Tokens /\ by # "bot"
        /\ by \in {"bot", Owner, "stranger"} /\ (Known(RootOf(c)) # {}) \in BOOLEAN
    BY <1>1, <2>2 DEF None, Tokens, Owner
  <2>4. \E e \in ChatRow : /\ chat' = Append(chat, e) /\ e.by = by /\ e.mail = None /\ e.root = RootOf(c)
                           /\ e.knew => Known(RootOf(c)) # {}
    <3> DEFINE k == Known(RootOf(c)) # {}
    <3>1. k \in BOOLEAN
      BY <2>3
    <3> HIDE DEF k
    <3>2. LET e == Message(by, None, RootOf(c), <<>>, at, k) IN
          e \in ChatRow /\ e.by = by /\ e.mail = None /\ e.root = RootOf(c) /\ e.knew = k
      BY <2>3, <3>1 DEF ChatRow, Message
    <3> QED
      BY <2>1, <3>2 DEF k
  <2>5. UNCHANGED <<mail, rows, memory, job, handlers, faults>>
    BY <1>5 DEF Say, store, volatile, counts
  <2> QED
    BY <1>3, <2>2, <2>3, <2>4, <2>5 DEF AddsWord
<1> QED
  BY <1>2, <1>4, <1>5 DEF StepKind, Fewer, Enqueue, React, Pick, PostImages, Record, Plain,
     PublishReaction, MarkDispatched, Deliver, Lookup, InsertMessage, InHandler, store, Fault


\* A row of the outbox is an old one, perhaps tried once more; what mirrors a mail; or an echo.
SameRow(r, s) == r.kind = s.kind /\ r.msg = s.msg /\ r.target = s.target
OldRow(r) ==
    \E s \in rows : /\ SameRow(r, s)
                    /\ \/ r.tries = s.tries
                       \/ r.tries = s.tries + 1 /\ "post" \notin faults /\ "post" \in faults'
NewRow(r) ==
    /\ r.tries = 0 /\ r.msg \in DOMAIN mail
    /\ \/ r.kind = "publish" /\ IsOwners(r.msg) /\ r.target = Answered(r.msg)
       \/ r.kind = "react" /\ ~IsOwners(r.msg) /\ r.target = mail[r.msg].ext

\* The outbox after a step: no row of it is made up.
LEMMA RowsAre ==
  ASSUME Types, Refs, StepKind
  PROVE  /\ rows' \subseteq OutRow /\ faults \subseteq faults'
         /\ \A r \in rows' : OldRow(r) \/ NewRow(r)
<1>1. rows \subseteq OutRow /\ DOMAIN mail \subseteq Nat /\ \A r \in OutRow : r.tries \in Nat
  BY Columns DEF Types
<1>2. ASSUME NEW T \in SUBSET rows, rows' = T, faults \subseteq faults'
      PROVE  rows' \subseteq OutRow /\ faults \subseteq faults' /\ \A r \in rows' : OldRow(r) \/ NewRow(r)
  BY <1>1, <1>2 DEF OldRow, SameRow
<1>3. CASE rows' \subseteq rows /\ faults \subseteq faults'
  BY <1>2, <1>3
<1>4. ASSUME NEW kind \in Kind, NEW m \in DOMAIN mail, NEW target \in Nat, faults \subseteq faults',
             rows' = Enqueued(kind, m, target),
             \/ kind = "publish" /\ IsOwners(m) /\ target = Answered(m)
             \/ kind = "react" /\ ~IsOwners(m) /\ target = mail[m].ext
      PROVE  rows' \subseteq OutRow /\ faults \subseteq faults' /\ \A r \in rows' : OldRow(r) \/ NewRow(r)
  <2>1. CASE rows' = rows
    BY <1>2, <1>4, <2>1
  <2>2. CASE rows' # rows
    <3>1. PICK e \in OutRow : /\ rows' = rows \cup {e}
                              /\ e.kind = kind /\ e.msg = m /\ e.target = target /\ e.tries = 0
      <4>1. LET e == [kind |-> kind, msg |-> m, target |-> target, done |-> FALSE, tries |-> 0] IN
            e \in OutRow /\ e.kind = kind /\ e.msg = m /\ e.target = target /\ e.tries = 0
        BY <1>1, RowMade
      <4> QED
        BY <1>4, <2>2, <4>1 DEF Enqueued
    <3>2. NewRow(e)
      BY <1>4, <3>1 DEF NewRow
    <3> QED
      BY <1>1, <1>4, <3>1, <3>2 DEF OldRow, SameRow
  <2> QED
    BY <2>1, <2>2
<1>5. CASE Enqueue
  <2>1. PICK m \in todo : rows' = Enqueued("publish", m, Answered(m))
    BY <1>5 DEF Enqueue
  <2>2. m \in DOMAIN mail /\ IsOwners(m) /\ "publish" \in Kind
    BY DEF Types, OwnersMail, Kind
  <2>3. Answered(m) \in Nat
    <3>1. mail[m].parent \in 0..m - 1 /\ m \in 1..Len(mail) /\ DOMAIN mail = 1..Len(mail) /\ Len(mail) \in Nat
      BY <2>2 DEF Refs, MailRefs, Types
    <3>2. mail[m].parent # None => mail[m].parent \in DOMAIN mail
      BY <3>1 DEF None
    <3>3. \A p \in DOMAIN mail : mail[p].ext \in Nat
      BY Columns DEF Types
    <3> QED
      BY <3>2, <3>3 DEF Answered, None
  <2> QED
    BY <1>4, <1>5, <2>1, <2>2, <2>3 DEF Enqueue, counts
<1>6. ASSUME NEW m \in DOMAIN mail, NEW dies \in BOOLEAN, React(m, dies)
      PROVE  rows' \subseteq OutRow /\ faults \subseteq faults' /\ \A r \in rows' : OldRow(r) \/ NewRow(r)
  <2>1. ~IsOwners(m) /\ faults \subseteq faults' /\ (rows' = rows \/ rows' = Enqueued("react", m, mail[m].ext))
    BY <1>6 DEF React, Fault
  <2>2. mail[m].ext \in Nat /\ "react" \in Kind
    BY Columns DEF Types, Kind
  <2> QED
    BY <1>3, <1>4, <2>1, <2>2
<1>7. CASE PostFails \/ MarkDispatched
  <2>1. JobRow \in rows
    BY <1>7, JobRowIs DEF Refs, PostFails, MarkDispatched, AtJob
  <2>2. PICK e \in OutRow : /\ rows' \subseteq rows \cup {e} /\ SameRow(e, JobRow)
                            /\ \/ e.tries = JobRow.tries
                               \/ e.tries = JobRow.tries + 1 /\ "post" \notin faults /\ "post" \in faults'
    <3>1. CASE PostFails
      BY <1>1, <2>1, <3>1, RowTried DEF PostFails, Fault, SameRow
    <3>2. CASE MarkDispatched
      BY <1>1, <2>1, <3>2, RowDone DEF MarkDispatched, SameRow
    <3> QED
      BY <1>7, <3>1, <3>2
  <2>3. faults \subseteq faults'
    BY <1>7 DEF PostFails, MarkDispatched, Fault
  <2>4. OldRow(e)
    BY <2>1, <2>2 DEF OldRow
  <2> QED
    BY <1>1, <2>2, <2>3, <2>4 DEF OldRow, SameRow
<1> QED
  BY <1>3, <1>5, <1>6, <1>7 DEF StepKind, Fewer, Plain, Pick, PublishOwnerMail, PostImages, Record,
     PublishReaction, Say, Deliver, Lookup, InsertMessage, InHandler, store, counts, Fault

\* What the dispatcher is at stays where it was, ends, is picked, or goes one step on.
Picked ==
    /\ job'.stage = "post" /\ UNCHANGED rows
    /\ \E r \in rows : job'.row = r.msg /\ job'.target = r.target /\ job'.kind = r.kind
Moved ==
    /\ job.stage # "idle" /\ UNCHANGED rows
    /\ job'.row = job.row /\ job'.target = job.target /\ job'.kind = job.kind
    /\ job'.stage \in {"images", "record"} =>
          \/ job.stage \in {"images", "record"} /\ job'.id = job.id /\ UNCHANGED <<chat, memory>>
          \/ /\ job.stage = "post" /\ job.kind = "publish"
             /\ job'.id \in 1..Len(chat) + 1 /\ Lands(job'.id)
    /\ job'.id = job.id \/ job.stage = "post"

\* The dispatcher after a step.
LEMMA JobIs ==
  ASSUME Types, Refs, StepKind
  PROVE  /\ job' \in Job
         /\ \/ UNCHANGED job /\ \A r \in rows : r.msg = job.row => \E s \in rows' : SameRow(s, r)
            \/ job'.stage = "idle" /\ job'.target = None
            \/ Picked \/ Moved
<1>1. job \in Job /\ rows \subseteq OutRow
  BY DEF Types
<1>2. CASE job' = Idle
  BY <1>2, JobRests
<1>3. CASE Fewer
  BY <1>1, <1>2, <1>3 DEF Fewer, SameRow
<1>4. CASE Enqueue \/ (\E m \in DOMAIN mail, dies \in BOOLEAN : React(m, dies))
  <2>1. UNCHANGED job /\ rows \subseteq rows'
    BY <1>4 DEF Enqueue, React, Enqueued, volatile
  <2> QED
    BY <1>1, <2>1 DEF SameRow
<1>5. ASSUME NEW r \in rows, Pick(r) PROVE job' \in Job /\ Picked
  <2>1. job' = [row |-> r.msg, stage |-> "post", id |-> None, target |-> r.target, kind |-> r.kind]
        /\ UNCHANGED rows
    BY <1>5 DEF Pick, store
  <2> QED
    BY <1>1, <2>1, Columns, JobMade DEF Picked, None, Stage
<1>6. CASE PublishOwnerMail
  <2>1. PICK id \in 1..Len(chat) + 1 :
            /\ Lands(id) /\ UNCHANGED rows
            /\ job' = [row |-> job.row, stage |-> "images", id |-> id, target |-> job.target, kind |-> job.kind]
    BY <1>6 DEF PublishOwnerMail
  <2>2. job.stage = "post" /\ job.kind = "publish"
    BY <1>6 DEF PublishOwnerMail, AtJob
  <2>3. id \in Nat /\ "images" \in Stage
    BY DEF Types, Stage
  <2>4. /\ job' \in Job /\ job'.row = job.row /\ job'.stage = "images" /\ job'.id = id
        /\ job'.target = job.target /\ job'.kind = job.kind
    BY <1>1, <2>1, <2>3, Columns, JobMade
  <2> QED
    BY <2>1, <2>2, <2>4 DEF Moved
<1>7. CASE PostImages \/ Record \/ PublishReaction
  <2>1. PICK stage \in {"record", "mark"} :
            /\ job' = At(job, stage) /\ UNCHANGED <<rows, chat, memory>>
            /\ job.stage # "idle" /\ (stage = "record" => job.stage = "images")
    BY <1>7 DEF PostImages, Record, PublishReaction, AtJob, Step, At
  <2>2. /\ job' \in Job /\ job'.row = job.row /\ job'.stage = stage /\ job'.id = job.id
        /\ job'.target = job.target /\ job'.kind = job.kind
    BY <1>1, <2>1, JobMoves DEF Stage
  <2> QED
    BY <2>1, <2>2 DEF Moved
<1>8. CASE PostFails \/ MarkDispatched
  BY <1>2, <1>8 DEF PostFails, MarkDispatched
<1>9. CASE UNCHANGED <<job, rows>>
  BY <1>1, <1>9 DEF SameRow
<1> QED
  BY <1>3, <1>4, <1>5, <1>6, <1>7, <1>8, <1>9 DEF StepKind, Plain, Say, Deliver, Lookup,
     InsertMessage, InHandler, store, volatile

\* A handler is an old one, one for an event that is pushed, or one that knows where it goes.
Pushed(h) ==
    /\ h.stage = "lookup" /\ h.parent = None /\ h.msg \in DOMAIN chat /\ chat[h.msg].by # "bot"
    /\ UNCHANGED <<mail, chat>>
Found(h) ==
    /\ h.stage = "insert" /\ UNCHANGED <<mail, chat>> /\ \E g \in handlers : g.msg = h.msg
    /\ h.to \in Agents /\ h.to = Resolve(h.parent, chat[h.msg].at)
    /\ h.parent \in IF Known(chat[h.msg].root) = {} THEN {None} ELSE Known(chat[h.msg].root)

\* The handlers after a step.
LEMMA HandlersAre ==
  ASSUME Types, Refs, StepKind, faults' \subseteq FaultKinds
  PROVE  /\ handlers' \subseteq Handler
         /\ \A h \in handlers' : h \in handlers \/ Pushed(h) \/ Found(h)
<1>1. handlers \subseteq Handler /\ DOMAIN chat \subseteq Nat /\ DOMAIN mail \subseteq Nat
  BY DEF Types
<1>2. ASSUME NEW c \in DOMAIN chat, Deliver(c)
      PROVE  /\ handlers' \subseteq Handler
             /\ \A h \in handlers' : h \in handlers \/ Pushed(h) \/ Found(h)
  <2>1. PICK e : /\ handlers' = handlers \cup {e}
                 /\ e = [n |-> Cardinality(faults'), msg |-> c, stage |-> "lookup", to |-> Nobody, parent |-> None]
    BY <1>2 DEF Deliver
  <2>2. chat[c].by # "bot" /\ UNCHANGED <<mail, chat>>
    BY <1>2 DEF Deliver, store
  <2>3. Cardinality(faults') \in {Cardinality(S) : S \in SUBSET FaultKinds}
    OBVIOUS
  <2>4. e \in Handler /\ e.msg = c /\ e.stage = "lookup" /\ e.parent = None
    BY <1>1, <2>1, <2>3, HandlerMade
  <2> QED
    BY <1>1, <2>1, <2>2, <2>4 DEF Pushed
<1>3. ASSUME NEW g \in handlers, Lookup(g)
      PROVE  /\ handlers' \subseteq Handler
             /\ \A h \in handlers' : h \in handlers \/ Pushed(h) \/ Found(h)
  <2>1. CASE handlers' \subseteq handlers
    BY <1>1, <2>1
  <2>2. CASE ~(handlers' \subseteq handlers)
    <3> DEFINE root == chat[g.msg].root
               to(m) == Resolve(m, chat[g.msg].at)
    <3>1. PICK m \in IF Known(root) = {} THEN {None} ELSE Known(root) :
              /\ to(m) \in Agents
              /\ handlers' = (handlers \ {g}) \cup {Resolved(g, to(m), m)}
      BY <1>3, <2>2 DEF Lookup, Drop
    <3>2. m \in Nat
      BY <1>1, <3>1 DEF Known, None
    <3>3. LET h == Resolved(g, to(m), m) IN
          h \in Handler /\ h.msg = g.msg /\ h.stage = "insert" /\ h.to = to(m) /\ h.parent = m
      BY <1>1, <3>1, <3>2 DEF Resolved, Handler
    <3>4. UNCHANGED <<mail, chat>>
      BY <1>3 DEF Lookup, InHandler
    <3>5. Found(Resolved(g, to(m), m))
      BY <3>1, <3>3, <3>4 DEF Found
    <3> QED
      BY <1>1, <3>1, <3>3, <3>5
  <2> QED
    BY <2>1, <2>2
<1>4. CASE handlers' \subseteq handlers
  BY <1>1, <1>4
<1> QED
  BY <1>2, <1>3, <1>4 DEF StepKind, Plain, Fewer, Enqueue, React, Pick, PublishOwnerMail, PostFails,
     PostImages, Record, PublishReaction, MarkDispatched, AtJob, Say, InsertMessage, Drop, volatile


-----------------------------------------------------------------------------
(* The types and the references of a step. *)

\* Only kinds of fault that the bounds name occur.
LEMMA FaultsAre ==
  ASSUME Types, [Next]_vars
  PROVE  faults' \subseteq FaultKinds /\ bound' \in Bound
<1>1. bound.kinds \subseteq FaultKinds
  BY DEF Types, OwnerChannelAssumption
<1>2. bound' = bound /\ (faults' = faults \/ \E kind \in bound.kinds : faults' = faults \cup {kind})
  BY DEF Next, vars, store, volatile, counts, Fault, AgentWrites, DashboardSend, Mirror, Boot, Sweep,
     Subscribe, Enqueue, Take, Poll, Publish, PublishOwnerMail, PostFails, PostImages, Record,
     PublishReaction, MarkDispatched, Pick, Inbound, Lookup, DownloadRaises, InsertMessage, InHandler,
     Crash, Prune, Forget, React, Say, Deliver
<1> QED
  BY <1>1, <1>2 DEF Types

\* The queue and the hands of the enqueuer hold mail of the owner.
ServicesTyped ==
    /\ enq \in {"sweep", "join", "listen"} /\ seen \in 0..Len(mail)
    /\ queue \cup todo \subseteq OwnersMail

\* No step puts in the queue what is not mail of the owner.
LEMMA ServicesStep ==
  ASSUME Types, Refs, MailKept, [Next]_vars
  PROVE  ServicesTyped'
<1>1. /\ DOMAIN mail = 1..Len(mail) /\ Len(mail) \in Nat
      /\ DOMAIN mail' = 1..Len(mail') /\ Len(mail') \in Nat
  BY DEF Types, MailKept
<1>2. Len(mail) <= Len(mail')
  <2>1. CASE Len(mail) = 0
    BY <1>1, <2>1
  <2>2. CASE Len(mail) > 0
    <3>1. Len(mail) \in DOMAIN mail'
      BY <1>1, <2>2 DEF MailKept
    <3> QED
      BY <1>1, <3>1
  <2> QED
    BY <1>1, <2>1, <2>2
<1>3. OwnersMail \subseteq OwnersMail' /\ OwnersMail \subseteq 1..Len(mail)
  BY <1>1 DEF OwnersMail, IsOwners, MailKept
<1> SUFFICES /\ enq' \in {"sweep", "join", "listen"} /\ seen' \in 0..Len(mail)
             /\ queue' \subseteq OwnersMail /\ todo' \subseteq OwnersMail
  <2>1. 0..Len(mail) \subseteq 0..Len(mail')
    BY <1>1, <1>2
  <2>2. (queue \cup todo)' \subseteq OwnersMail'
    BY <1>3
  <2> QED
    BY <2>1, <2>2 DEF ServicesTyped
<1>5. CASE UNCHANGED <<seen, enq, queue, todo>>
  BY <1>5 DEF Types
<1>6. CASE Boot \/ Crash
  BY <1>1, <1>3, <1>6 DEF Boot, Crash, IsLast
<1>7. CASE Sweep
  BY <1>7 DEF Sweep, Oldest, Pending, OwnersMail, Types
<1>8. CASE Subscribe \/ Take
  BY <1>8 DEF Subscribe, Take, Types
<1>10. CASE Enqueue
  BY <1>10 DEF Enqueue, Types
<1>9. CASE Poll
  BY <1>1, <1>3, <1>9 DEF Poll, IsLast, Published, Types
<1> QED
  BY <1>5, <1>6, <1>7, <1>8, <1>9, <1>10
  DEF Next, vars, store, volatile, counts, AgentWrites, DashboardSend, Mirror,
     Publish, PublishOwnerMail, PostFails, PostImages, Record, AtJob,
     PublishReaction, MarkDispatched, Pick, Inbound, Lookup, DownloadRaises, InsertMessage, InHandler,
     Prune, Forget, React, Say, Deliver

\* The channel learns a token with a post, and forgets.
MemoryMoves == memory' \subseteq memory \/ AddsPost

\* No step makes the channel know a token otherwise.
LEMMA MemoryIs ==
  ASSUME Types, UNCHANGED chat \/ AddsPost \/ AddsWord, StepKind
  PROVE  MemoryMoves
<1> SUFFICES memory' \subseteq memory \/ AddsPost
  BY DEF MemoryMoves
<1>1. CASE PublishOwnerMail \/ PostFails
  <2>1. memory' \subseteq memory \/ \E id \in 1..Len(chat) + 1 : Lands(id)
    BY <1>1 DEF PublishOwnerMail, PostFails
  <2>2. AddsWord => memory' = memory
    BY DEF AddsWord
  <2>3. UNCHANGED chat => \A id \in 1..Len(chat) + 1 : Lands(id) => memory' \subseteq memory
    <3> SUFFICES ASSUME UNCHANGED chat, NEW id \in 1..Len(chat) + 1, Lands(id)
                 PROVE  memory' \subseteq memory
      OBVIOUS
    <3>1. \/ UNCHANGED memory
          \/ \E e : chat' = Append(chat, e)
      BY DEF Lands
    <3>2. \A e : Append(chat, e) # chat
      BY DEF Types
    <3> QED
      BY <3>1, <3>2
  <2> QED
    BY <2>1, <2>2, <2>3
<1> QED
  BY <1>1 DEF StepKind, Plain, Fewer, Enqueue, React, Pick, PostImages, volatile,
     Record, PublishReaction, MarkDispatched, AtJob, Say, Deliver, Lookup, InsertMessage, InHandler, store

\* What a step makes of acks, memory and delivered.
LEMMA MarksStep ==
  ASSUME Types, Refs, MailKept, ChatKept, UNCHANGED chat \/ AddsPost \/ AddsWord, StepKind
  PROVE  acks' \subseteq DOMAIN mail' /\ memory' \subseteq DOMAIN chat' /\ delivered' \subseteq DOMAIN chat'
<1>1. acks' \subseteq DOMAIN mail
  <2>1. CASE \E m \in DOMAIN mail, dies \in BOOLEAN : React(m, dies)
    <3>1. \E m \in DOMAIN mail : acks' = acks \cup {m}
      BY <2>1 DEF React
    <3> QED
      BY <3>1 DEF Types
  <2>2. CASE ~\E m \in DOMAIN mail, dies \in BOOLEAN : React(m, dies)
    <3>1. acks' = acks
      BY <2>2 DEF StepKind, Plain, Fewer, Enqueue, Pick, PublishOwnerMail, PostFails, PostImages,
         Record, PublishReaction, MarkDispatched, AtJob, Say, Deliver, Lookup, InsertMessage, InHandler, store
    <3> QED
      BY <3>1 DEF Types
  <2> QED
    BY <2>1, <2>2
<1>2. delivered' \subseteq DOMAIN chat
  <2>1. CASE \E c \in DOMAIN chat : Deliver(c)
    <3>1. \E c \in DOMAIN chat : delivered' = delivered \cup {c}
      BY <2>1 DEF Deliver
    <3> QED
      BY <3>1 DEF Types
  <2>2. CASE ~\E c \in DOMAIN chat : Deliver(c)
    <3>1. delivered' = delivered
      BY <2>2 DEF StepKind, Plain, Fewer, Enqueue, React, Pick, PublishOwnerMail, PostFails, PostImages,
         Record, PublishReaction, MarkDispatched, AtJob, Say, Lookup, InsertMessage, InHandler, counts
    <3> QED
      BY <3>1 DEF Types
  <2> QED
    BY <2>1, <2>2
<1>3. memory' \subseteq memory \/ AddsPost
  BY MemoryIs DEF MemoryMoves
<1>4. memory' \subseteq DOMAIN chat'
  <2>1. AddsPost => memory' \subseteq DOMAIN chat'
    BY DEF AddsPost, ChatGrows, Types
  <2> QED
    BY <1>3, <2>1 DEF Types, ChatKept
<1> QED
  BY <1>1, <1>2, <1>4 DEF MailKept, ChatKept

\* The types are kept, given that the references hold.
LEMMA TypesStep ==
  ASSUME Types, Refs, HandlersOf, [Next]_vars
  PROVE  Types'
BY StepIs, MailIs, ChatIs, RowsAre, JobIs, HandlersAre, FaultsAre, ServicesStep, MarksStep
DEF Types, MailKept, ChatKept, ServicesTyped


\* What MailIs, ChatIs, RowsAre, JobIs and HandlersAre say of a step, in one.
MailMoves == UNCHANGED mail \/ AddsPlain \/ (\E h \in handlers : AddsReceived(h)) \/ NotesPost
ChatMoves == UNCHANGED chat \/ AddsPost \/ AddsWord
RowsMove  == faults \subseteq faults' /\ \A r \in rows' : OldRow(r) \/ NewRow(r)
JobMove   == \/ UNCHANGED job /\ \A r \in rows : r.msg = job.row => \E s \in rows' : SameRow(s, r)
             \/ job'.stage = "idle" /\ job'.target = None
             \/ Picked \/ Moved
HandlersMove == \A h \in handlers' : h \in handlers \/ Pushed(h) \/ Found(h)
Moves == MailKept /\ MailMoves /\ ChatKept /\ ChatMoves /\ MemoryMoves
         /\ RowsMove /\ JobMove /\ HandlersMove

\* Every step is of that kind.
LEMMA StepMoves ==
  ASSUME Types, Refs, HandlersOf, [Next]_vars
  PROVE  Moves /\ StepKind
BY StepIs, MailIs, ChatIs, MemoryIs, RowsAre, JobIs, HandlersAre, FaultsAre
DEF Moves, MailMoves, ChatMoves, RowsMove, JobMove, HandlersMove

\* Nothing is ever deleted to which a row, a job or a handler refers.
LEMMA RefsStep ==
  ASSUME Types, Types', Refs, Moves
  PROVE  Refs'
<1> USE DEF Moves, Refs
<1>1. /\ DOMAIN mail = 1..Len(mail) /\ Len(mail) \in Nat
      /\ DOMAIN chat = 1..Len(chat) /\ Len(chat) \in Nat
  BY DEF Types
<1>2. DOMAIN mail \subseteq DOMAIN mail' /\ DOMAIN chat \subseteq DOMAIN chat'
  BY DEF MailKept, ChatKept
<1>3. MailRefs'
  <2>1. ASSUME NEW e, NEW ext \in {None} \cup DOMAIN chat, Grows(e), e.parent \in {None} \cup DOMAIN mail,
               e.ext = ext, e.key \in {None, ext}
        PROVE  MailRefs'
    <3>1. e.parent \in 0..Len(mail)
      BY <1>1, <2>1 DEF None
    <3> QED
      BY <1>1, <1>2, <2>1, <3>1 DEF MailRefs, Grows
  <2>2. CASE UNCHANGED mail
    BY <1>2, <2>2 DEF MailRefs
  <2>3. CASE AddsPlain
    BY <2>1, <2>3 DEF AddsPlain
  <2>4. CASE \E h \in handlers : AddsReceived(h)
    BY <2>1, <2>4 DEF AddsReceived, HandlerRefs
  <2>5. CASE NotesPost
    <3>1. job.id \in DOMAIN chat
      BY <2>5 DEF NotesPost, JobRefs
    <3> QED
      BY <1>2, <2>5, <3>1 DEF NotesPost, MailRefs, MailKept
  <2> QED
    BY <2>2, <2>3, <2>4, <2>5 DEF MailMoves
<1>4. ChatRefs'
  <2>1. ASSUME NEW e, ChatGrows(e), e.root \in {None} \cup DOMAIN chat,
               e.root # None => chat[e.root].root = None, e.mail \in {None} \cup DOMAIN mail
        PROVE  ChatRefs'
    <3>1. e.root \in 0..Len(chat)
      BY <1>1, <2>1 DEF None
    <3>2. \A c \in DOMAIN chat : chat[c].root # None => chat[c].root \in DOMAIN chat
      BY <1>1 DEF ChatRefs, None
    <3> QED
      BY <1>1, <1>2, <2>1, <3>1, <3>2 DEF ChatRefs, ChatGrows
  <2>2. CASE UNCHANGED chat
    BY <1>2, <2>2 DEF ChatRefs
  <2>3. CASE AddsPost
    <3>1. job.stage = "post" /\ UNCHANGED mail
      BY <2>3 DEF AddsPost, PublishOwnerMail, PostFails, AtJob
    <3>2. job.target \in {None} \cup DOMAIN chat /\ job.row \in DOMAIN mail
      BY <3>1 DEF JobRefs
    <3>3. RootOf(job.target) # None => chat[RootOf(job.target)].root = None
      BY <3>2, RootIs
    <3>4. RootOf(job.target) \in {None} \cup DOMAIN chat
      BY <3>2, RootIs
    <3> QED
      BY <2>1, <2>3, <3>2, <3>3, <3>4 DEF AddsPost
  <2>4. CASE AddsWord
    BY <2>1, <2>4 DEF AddsWord
  <2> QED
    BY <2>2, <2>3, <2>4 DEF ChatMoves
<1>5. RowRefs'
  <2>1. ASSUME NEW r \in rows', OldRow(r) PROVE r.msg \in DOMAIN mail /\ r.target \in {None} \cup DOMAIN chat
    BY <2>1 DEF OldRow, SameRow, RowRefs
  <2>2. ASSUME NEW r \in rows', NewRow(r) PROVE r.msg \in DOMAIN mail /\ r.target \in {None} \cup DOMAIN chat
    <3>1. \A m \in DOMAIN mail : mail[m].parent # None => mail[m].parent \in DOMAIN mail
      BY <1>1 DEF MailRefs, None
    <3> QED
      BY <2>2, <3>1 DEF NewRow, Answered, MailRefs
  <2> QED
    BY <1>2, <2>1, <2>2 DEF RowRefs, RowsMove
<1>6. JobRefs'
  <2>1. CASE UNCHANGED job /\ \A r \in rows : r.msg = job.row => \E s \in rows' : SameRow(s, r)
    BY <1>2, <2>1 DEF JobRefs, SameRow
  <2>2. CASE job'.stage = "idle" /\ job'.target = None
    BY <2>2 DEF JobRefs
  <2>3. CASE Picked
    BY <1>2, <2>3 DEF JobRefs, Picked, RowRefs
  <2>4. CASE Moved
    <3>1. ASSUME job.stage = "post", NEW id \in 1..Len(chat) + 1, Lands(id)
          PROVE  id \in DOMAIN chat'
      <4>1. CASE id \in memory
        BY <1>2, <4>1 DEF Types
      <4>2. CASE \E e \in ChatRow : id = Len(chat) + 1 /\ chat' = Append(chat, e)
        BY <4>2, SeqAdd DEF Types
      <4> QED
        BY <3>1, <4>1, <4>2, LandsIs
    <3>2. job'.stage \in {"images", "record"} => job'.id \in DOMAIN chat'
      BY <1>2, <2>4, <3>1 DEF Moved, JobRefs
    <3> QED
      BY <1>2, <2>4, <3>2 DEF JobRefs, Moved
  <2> QED
    BY <2>1, <2>2, <2>3, <2>4 DEF JobMove
<1>7. HandlerRefs'
  <2>1. ASSUME NEW h \in handlers', Pushed(h) PROVE h.msg \in DOMAIN chat /\ h.parent \in {None} \cup DOMAIN mail
    BY <2>1 DEF Pushed
  <2>2. ASSUME NEW h \in handlers', Found(h) PROVE h.msg \in DOMAIN chat /\ h.parent \in {None} \cup DOMAIN mail
    BY <2>2 DEF Found, Known, HandlerRefs
  <2> QED
    BY <1>2, <2>1, <2>2 DEF HandlerRefs, HandlersMove
<1> QED
  BY <1>3, <1>4, <1>5, <1>6, <1>7


-----------------------------------------------------------------------------
(* One step of each part of the invariant. *)

\* A row is refused once at most, since the fault occurs once.
LEMMA TriesStep ==
  ASSUME Types, Tries, Moves
  PROVE  Tries'
<1>1. \A r \in rows : r.tries \in Nat
  BY Columns DEF Types
<1> QED
  BY <1>1 DEF Tries, Moves, RowsMove, OldRow, NewRow

\* A post is of a mail of the owner and bears its token, whichever attempt made it.
LEMMA PostsStep ==
  ASSUME Types, Types', Refs, Posts, Moves
  PROVE  Posts'
<1> USE DEF Moves, Refs
<1>1. \A m \in DOMAIN mail : m \in DOMAIN mail' /\ (IsOwners(m)' <=> IsOwners(m))
  BY DEF MailKept, IsOwners
<1>2. None \notin DOMAIN mail
  BY DEF Types, None
<1>3. ASSUME AddsPost
      PROVE  job.row \in DOMAIN mail /\ IsOwners(job.row) /\ job.stage = "post"
  <2>1. job.stage = "post" /\ job.kind = "publish"
    BY <1>3 DEF AddsPost, PublishOwnerMail, PostFails, AtJob
  <2> QED
    BY <2>1 DEF Posts, JobRefs
<1>4. ASSUME NEW c \in DOMAIN chat'
      PROVE  /\ (chat[c].by = "bot" <=> chat[c].mail # None)'
             /\ (chat[c].by = "bot" => chat[c].token = <<chat[c].mail, 0>> /\ IsOwners(chat[c].mail))'
  <2>1. CASE c \in DOMAIN chat
    BY <1>1, <2>1 DEF Posts, ChatKept, ChatRefs
  <2>2. CASE c \notin DOMAIN chat
    <3>1. CASE AddsPost
      BY <1>1, <1>2, <1>3, <2>2, <3>1 DEF AddsPost, ChatGrows
    <3>2. CASE AddsWord
      BY <2>2, <3>2 DEF AddsWord, ChatGrows
    <3> QED
      BY <2>2, <3>1, <3>2 DEF ChatMoves
  <2> QED
    BY <2>1, <2>2
<1>5. ASSUME NEW r \in rows' PROVE r.kind = "publish" <=> IsOwners(r.msg)'
  BY <1>1 DEF RowsMove, OldRow, NewRow, SameRow, Posts, RowRefs
<1>6. (job.stage # "idle" => (job.kind = "publish" <=> IsOwners(job.row)))'
  BY <1>1 DEF JobMove, Picked, Moved, Posts, JobRefs, RowRefs
<1>7. (job.stage \in {"images", "record"} =>
          job.kind = "publish" /\ job.id \in DOMAIN chat /\ chat[job.id].mail = job.row)'
  <2>1. CASE UNCHANGED job
    BY <2>1 DEF Posts, ChatKept
  <2>2. CASE job'.stage = "idle" \/ Picked
    BY <2>2 DEF Picked
  <2>3. CASE Moved
    <3>1. ASSUME job.stage = "post", job.kind = "publish", NEW id \in 1..Len(chat) + 1, Lands(id)
          PROVE  id \in DOMAIN chat' /\ chat'[id].mail = job.row
      <4>1. CASE id \in memory /\ chat[id].token = <<job.row, 0>> /\ UNCHANGED chat
        <5>1. chat[id].by = "bot" /\ id \in DOMAIN chat
          BY <4>1 DEF Posts, Types
        <5>2. chat[id].token = <<chat[id].mail, 0>>
          BY <5>1 DEF Posts
        <5>3. <<job.row, 0>> = <<chat[id].mail, 0>>
          BY <4>1, <5>2
        <5> QED
          BY <4>1, <5>1, <5>3
      <4>2. CASE \E e \in ChatRow : id = Len(chat) + 1 /\ chat' = Append(chat, e) /\ e.mail = job.row
        BY <4>2, SeqAdd DEF Types
      <4> QED
        BY <3>1, <4>1, <4>2, LandsIs
    <3> QED
      BY <2>3, <3>1 DEF Moved, Posts, ChatKept
  <2> QED
    BY <2>1, <2>2, <2>3 DEF JobMove
<1>8. (\A c \in memory : chat[c].by = "bot")'
  <2>1. CASE memory' \subseteq memory
    BY <2>1 DEF Posts, ChatKept, Types
  <2>2. CASE AddsPost
    <3>1. \A c \in memory : chat'[c].by = "bot"
      BY DEF Posts, ChatKept, Types
    <3>2. chat'[Len(chat) + 1].by = "bot" /\ memory' = memory \cup {Len(chat) + 1}
      BY <2>2 DEF AddsPost, ChatGrows
    <3> QED
      BY <3>1, <3>2
  <2> QED
    BY <2>1, <2>2 DEF MemoryMoves
<1> QED
  BY <1>4, <1>5, <1>6, <1>7, <1>8 DEF Posts

\* A handler that inserts does so for an agent that exists.
LEMMA HandlersOfStep ==
  ASSUME HandlersOf, Moves
  PROVE  HandlersOf'
BY DEF HandlersOf, Moves, HandlersMove, Pushed, Found

\* A name is given when a mail is received, or when its post is recorded.
LEMMA NamesStep ==
  ASSUME Types, Refs, Posts, HandlersOf, Names, Moves
  PROVE  Names'
<1> USE DEF Moves, Refs
<1>1. \A m \in DOMAIN mail : m \in DOMAIN mail' /\ (IsOwners(m)' <=> IsOwners(m))
  BY DEF MailKept, IsOwners
<1>2. \A c \in DOMAIN chat : c \in DOMAIN chat' /\ chat'[c] = chat[c]
  BY DEF ChatKept
<1>3. \A h \in handlers : h.msg \in DOMAIN chat /\ chat[h.msg].by # "bot"
  BY DEF HandlerRefs, Names
<1>4. ASSUME NEW m \in DOMAIN mail, mail'[m].ext = mail[m].ext
      PROVE  /\ mail'[m].key # None => /\ mail'[m].ext = mail'[m].key /\ ~IsOwners(m)'
                                       /\ chat'[mail'[m].key].by # "bot"
             /\ mail'[m].key = None /\ mail'[m].ext # None => chat'[mail'[m].ext].mail = m
  BY <1>1, <1>2, <1>4 DEF Names, MailRefs, MailKept
<1>5. ASSUME NEW m \in DOMAIN mail'
      PROVE  /\ mail'[m].key # None => /\ mail'[m].ext = mail'[m].key /\ ~IsOwners(m)'
                                       /\ chat'[mail'[m].key].by # "bot"
             /\ mail'[m].key = None /\ mail'[m].ext # None => chat'[mail'[m].ext].mail = m
  <2>1. CASE UNCHANGED mail
    BY <1>4, <2>1
  <2>2. CASE AddsPlain
    BY <1>4, <2>2 DEF AddsPlain, Grows
  <2>3. ASSUME NEW h \in handlers, AddsReceived(h), m \notin DOMAIN mail
        PROVE  /\ mail'[m].key # None => /\ mail'[m].ext = mail'[m].key /\ ~IsOwners(m)'
                                         /\ chat'[mail'[m].key].by # "bot"
               /\ mail'[m].key = None /\ mail'[m].ext # None => chat'[mail'[m].ext].mail = m
    <3>1. mail'[m].ext = h.msg /\ mail'[m].key = h.msg /\ mail'[m].to \in Agents
      BY <2>3 DEF AddsReceived, Grows, HandlersOf
    <3>2. h.msg # None
      BY <1>3 DEF Types, None
    <3> QED
      BY <1>2, <1>3, <3>1, <3>2, OwnerChannelAssumption DEF IsOwners, Owner
  <2>4. CASE NotesPost
    <3>1. CASE m # job.row
      BY <1>4, <2>4, <3>1 DEF NotesPost
    <3>2. CASE m = job.row
      <4>1. job.kind = "publish" /\ job.id \in DOMAIN chat /\ chat[job.id].mail = job.row /\ IsOwners(job.row)
        BY <2>4 DEF NotesPost, Posts
      <4>2. mail[m].key = None
        BY <2>4, <3>2, <4>1 DEF NotesPost, Names
      <4> QED
        BY <1>2, <2>4, <3>2, <4>1, <4>2 DEF NotesPost, MailKept
    <3> QED
      BY <3>1, <3>2
  <2>5. CASE m \in DOMAIN mail /\ \E h \in handlers : AddsReceived(h)
    BY <1>4, <2>5 DEF AddsReceived, Grows
  <2> QED
    BY <2>1, <2>2, <2>3, <2>4, <2>5 DEF MailMoves
<1>6. \A h \in handlers' : chat'[h.msg].by # "bot"
  BY <1>2, <1>3 DEF HandlersMove, Pushed, Found
<1> QED
  BY <1>5, <1>6 DEF Names


\* Whoever looks up a message outside any thread finds the same reader.
LEMMA DirectStep ==
  ASSUME Types, Refs, HandlersOf, Names, Direct, Moves
  PROVE  Direct'
<1> USE DEF Moves, Refs
<1>1. \A at : Resolve(None, at) = Named(at)
  BY DEF Resolve, Named
<1>3. \A c \in DOMAIN chat : c \in DOMAIN chat' /\ chat'[c] = chat[c]
  BY DEF ChatKept
<1>4. \A h \in handlers : h.msg \in DOMAIN chat
  BY DEF HandlerRefs
<1>5. ASSUME NEW m \in DOMAIN mail', mail'[m].key # None, chat'[mail'[m].key].root = None
      PROVE  mail'[m].to = Named(chat'[mail'[m].key].at)
  <2>1. CASE m \in DOMAIN mail
    <3>1. mail'[m].key = mail[m].key /\ mail'[m].to = mail[m].to /\ mail[m].key \in DOMAIN chat
      BY <1>5, <2>1 DEF MailKept, MailRefs
    <3> QED
      BY <1>3, <1>5, <2>1, <3>1 DEF Direct
  <2>2. ASSUME NEW h \in handlers, AddsReceived(h), m \notin DOMAIN mail
        PROVE  mail'[m].to = Named(chat'[mail'[m].key].at)
    <3>1. mail'[m].key = h.msg /\ mail'[m].to = h.to /\ h.stage = "insert"
      BY <2>2 DEF AddsReceived, Grows
    <3> QED
      BY <1>3, <1>4, <1>5, <3>1 DEF Direct
  <2> QED
    BY <1>5, <2>1, <2>2 DEF MailMoves, AddsPlain, NotesPost, Grows
<1>6. ASSUME NEW h \in handlers', h.stage = "insert", chat'[h.msg].root = None
      PROVE  h.to = Named(chat'[h.msg].at)
  <2>1. CASE h \in handlers
    BY <1>3, <1>4, <1>6, <2>1 DEF Direct
  <2>2. CASE Found(h)
    BY <1>1, <1>3, <1>4, <1>6, <2>2 DEF Found, Known
  <2> QED
    BY <1>6, <2>1, <2>2 DEF HandlersMove, Pushed
<1> QED
  BY <1>5, <1>6 DEF Direct

\* What an answer answers is copied from the mail to the row and to the job.
LEMMA TargetsStep ==
  ASSUME Types, Refs, Names, Targets, Moves
  PROVE  Targets'
<1> USE DEF Moves, Refs
<1>1. \A m \in DOMAIN mail : mail[m].parent # None => mail[m].parent \in DOMAIN mail
  BY DEF MailRefs, Types, None
<1>2. ASSUME NEW m \in DOMAIN mail, NEW t, Right(m, t)
      PROVE  Right(m, t)'
  BY <1>1, <1>2 DEF Right, MailKept
<1>3. \A m \in DOMAIN mail : Right(m, Answered(m))
  BY <1>1 DEF Right, Answered, Names
<1>4. ASSUME NEW r \in rows', r.kind = "publish"
      PROVE  r.msg \in DOMAIN mail /\ Right(r.msg, r.target)
  BY <1>3, <1>4 DEF RowsMove, OldRow, NewRow, SameRow, Targets, RowRefs
<1>5. ASSUME job'.stage # "idle", job'.kind = "publish"
      PROVE  job'.row \in DOMAIN mail /\ Right(job'.row, job'.target)
  BY <1>5 DEF JobMove, Picked, Moved, Targets, RowRefs, JobRefs
<1> QED
  BY <1>2, <1>4, <1>5 DEF Targets

\* A message makes one mail per reader: what is inserted looks for its like first.
LEMMA OneMailStep ==
  ASSUME OneMailPerReader, Moves
  PROVE  OneMailPerReader'
<1> USE DEF Moves
<1>1. \A m \in DOMAIN mail : mail'[m].key = mail[m].key /\ mail'[m].to = mail[m].to
  BY DEF MailKept
<1>2. CASE DOMAIN mail' = DOMAIN mail
  BY <1>1, <1>2 DEF OneMailPerReader
<1>3. CASE AddsPlain
  BY <1>1, <1>3 DEF AddsPlain, Grows, OneMailPerReader
<1>4. ASSUME NEW h \in handlers, AddsReceived(h)
      PROVE  OneMailPerReader'
  <2>1. \A m \in DOMAIN mail : ~(mail[m].to = h.to /\ mail[m].key = h.msg)
    BY <1>4 DEF AddsReceived, IsMail
  <2>2. PICK n : /\ DOMAIN mail' = DOMAIN mail \cup {n} /\ n \notin DOMAIN mail
                 /\ mail'[n].to = h.to /\ mail'[n].key = h.msg
    BY <1>4 DEF AddsReceived, Grows
  <2> QED
    BY <1>1, <2>1, <2>2 DEF OneMailPerReader
<1> QED
  BY <1>2, <1>3, <1>4 DEF MailMoves, NotesPost

\* The channel knows one post of a mail: a second would bear a token it knows.
LEMMA OnePostStep ==
  ASSUME Types, Refs, Posts, KnownOnce, OnePost, Moves
  PROVE  KnownOnce' /\ OnePost'
<1> USE DEF Moves, Refs
<1>1. \A c \in DOMAIN chat : c \in DOMAIN chat' /\ chat'[c] = chat[c]
  BY DEF ChatKept
<1>2. \A c \in memory : c \in DOMAIN chat /\ chat[c].token = <<chat[c].mail, 0>>
  BY DEF Posts, Types
<1>3. CASE AddsPost
  <2>1. PICK n : /\ DOMAIN chat' = DOMAIN chat \cup {n} /\ n \notin DOMAIN chat
                 /\ memory' = memory \cup {n} /\ chat'[n].mail = job.row
    BY <1>3 DEF AddsPost, ChatGrows
  <2>2. \A c \in memory : chat[c].mail # job.row
    BY <1>2, <1>3 DEF AddsPost
  <2>3. KnownOnce'
    BY <1>1, <1>2, <2>1, <2>2 DEF KnownOnce
  <2>4. OnePost'
    <3>1. job.stage = "post" /\ ~UNCHANGED chat
      BY <1>3, <2>1 DEF AddsPost, PublishOwnerMail, PostFails, AtJob
    <3>2. Len(chat) + 1 = n
      BY <1>3, <2>1 DEF AddsPost, ChatGrows
    <3>3. ASSUME NEW id \in 1..Len(chat) + 1, Lands(id)
          PROVE  id = n
      BY <3>1, <3>2, <3>3, LandsIs
    <3>4. job'.stage \in {"images", "record"} => job'.id = n /\ job'.row = job.row
      <4>1. CASE UNCHANGED job \/ job'.stage = "idle" \/ Picked
        BY <3>1, <4>1 DEF Picked
      <4>2. CASE Moved
        BY <3>1, <3>3, <4>2 DEF Moved
      <4> QED
        BY <4>1, <4>2 DEF JobMove
    <3> QED
      BY <1>1, <1>2, <2>1, <2>2, <3>4 DEF OnePost
  <2> QED
    BY <2>3, <2>4
<1>4. CASE memory' \subseteq memory /\ ~AddsPost
  <2>1. \A c \in memory' : c \in memory /\ chat'[c] = chat[c]
    BY <1>1, <1>2, <1>4
  <2>2. KnownOnce'
    <3> SUFFICES ASSUME NEW c \in memory', NEW d \in memory',
                        chat'[c].mail # None, chat'[c].mail = chat'[d].mail
                 PROVE  c = d
      BY DEF KnownOnce
    <3> QED
      BY <1>2, <2>1 DEF KnownOnce
  <2>3. OnePost'
    <3>1. CASE UNCHANGED job \/ job'.stage = "idle" \/ Picked
      BY <2>1, <3>1 DEF Picked, OnePost
    <3>2. CASE Moved
      <4>1. ASSUME job.stage = "post", NEW id \in 1..Len(chat) + 1, Lands(id)
            PROVE  \A c \in memory : chat[c].mail = job.row => c = id
        <5>1. CASE id \in memory /\ chat[id].token = <<job.row, 0>>
          <6>1. <<chat[id].mail, 0>> = <<job.row, 0>>
            BY <1>2, <5>1
          <6>2. chat[id].mail = job.row /\ id \in DOMAIN chat
            BY <1>2, <5>1, <6>1
          <6>3. job.row # None
            BY <4>1 DEF JobRefs, Types, None
          <6> QED
            BY <1>2, <5>1, <6>2, <6>3 DEF KnownOnce
        <5>2. CASE \A c \in memory : chat[c].token # <<job.row, 0>>
          BY <1>2, <5>2
        <5> QED
          BY <4>1, <5>1, <5>2, LandsIs
      <4> QED
        BY <2>1, <3>2, <4>1 DEF Moved, OnePost
    <3> QED
      BY <3>1, <3>2 DEF JobMove
  <2> QED
    BY <2>2, <2>3
<1> QED
  BY <1>3, <1>4 DEF MemoryMoves


\* What a step does to the channel's memory, and for which reason.
LEMMA Forgets ==
  ASSUME Types, [Next]_vars
  PROVE  memory \subseteq memory' \/ {"forget", "prune"} \cap faults' # {}
<1>1. CASE \E c \in memory : Forget(c)
  BY <1>1 DEF Forget, Fault
<1>2. CASE \E r \in rows : Prune(r)
  BY <1>2 DEF Prune, Fault
<1>3. CASE PublishOwnerMail \/ PostFails
  BY <1>3 DEF PublishOwnerMail, PostFails, Lands
<1>4. CASE UNCHANGED memory
  BY <1>4
<1> QED
  BY <1>1, <1>2, <1>3, <1>4
  DEF Next, vars, store, volatile, counts, AgentWrites, DashboardSend, Mirror, Boot, Sweep, Subscribe,
     Enqueue, Take, Poll, Publish, PostImages, Record, AtJob,
     PublishReaction, MarkDispatched, Pick, Inbound, Lookup, DownloadRaises, InsertMessage, InHandler,
     Crash, React, Say, Deliver

\* A post is known when it is made.
LEMMA RemembersStep ==
  ASSUME Types, Refs, Moves, Remembers, [Next]_vars
  PROVE  Remembers'
<1> SUFFICES ASSUME {"forget", "prune"} \cap faults' = {}
             PROVE  \A c \in DOMAIN chat' : chat'[c].by = "bot" => c \in memory'
  BY DEF Remembers
<1>1. memory \subseteq memory' /\ {"forget", "prune"} \cap faults = {}
  BY Forgets DEF Moves, RowsMove
<1>2. \A c \in DOMAIN chat : c \in DOMAIN chat' /\ chat'[c] = chat[c]
  BY DEF Moves, ChatKept
<1>3. \A c \in DOMAIN chat : chat'[c].by = "bot" => c \in memory'
  BY <1>1, <1>2 DEF Remembers
<1>4. CASE UNCHANGED chat
  BY <1>3, <1>4
<1>5. CASE AddsPost
  BY <1>3, <1>5 DEF AddsPost, ChatGrows
<1>6. CASE AddsWord
  BY <1>3, <1>6 DEF AddsWord, ChatGrows
<1> QED
  BY <1>4, <1>5, <1>6 DEF Moves, ChatMoves

-----------------------------------------------------------------------------
(* The threads. *)

\* A parent is a mail, and a root a message.
LEMMA Uphold ==
  ASSUME Types, Refs
  PROVE  /\ \A m \in DOMAIN mail : mail[m].parent # None => mail[m].parent \in DOMAIN mail
         /\ \A c \in DOMAIN chat : chat[c].root # None => chat[c].root \in DOMAIN chat
         /\ None \notin DOMAIN mail /\ None \notin DOMAIN chat
<1>1. /\ DOMAIN mail = 1..Len(mail) /\ Len(mail) \in Nat
      /\ DOMAIN chat = 1..Len(chat) /\ Len(chat) \in Nat
  BY DEF Types
<1> QED
  BY <1>1 DEF Refs, MailRefs, ChatRefs, None

\* The channel calls one mail by the root of a thread.
LEMMA Unique ==
  ASSUME Types, Refs, Posts, Names, Direct, OneMailPerReader,
         NEW m \in DOMAIN mail, NEW n \in DOMAIN mail,
         mail[m].ext # None, mail[m].ext = mail[n].ext, chat[mail[m].ext].root = None
  PROVE  m = n
<1> DEFINE c == mail[m].ext
<1>1. c \in DOMAIN chat /\ m # None /\ n # None
  BY DEF Refs, MailRefs, Types, None
<1>2. CASE mail[m].key = None /\ mail[n].key = None
  BY <1>2 DEF Names
<1>3. CASE mail[m].key # None /\ mail[n].key # None
  BY <1>3 DEF Names, Direct, OneMailPerReader
<1>4. ASSUME NEW p \in {m, n}, NEW q \in {m, n}, mail[p].key # None, mail[q].key = None
      PROVE  FALSE
  <2>1. chat[c].by # "bot"
    BY <1>4 DEF Names
  <2>2. chat[c].mail = q
    BY <1>4 DEF Names
  <2> QED
    BY <1>1, <2>1, <2>2 DEF Posts
<1> QED
  BY <1>2, <1>3, <1>4

\* Nobody answered, in a thread that was known, a message that is only now received.
LEMMA Unseen ==
  ASSUME Types, Refs, Posts, Names, Direct, Knew,
         NEW h \in handlers, AddsReceived(h), NEW k \in DOMAIN chat, chat[k].knew
  PROVE  chat[k].root # h.msg
<1> SUFFICES ASSUME chat[k].root = h.msg PROVE FALSE
  OBVIOUS
<1>1. h.msg \in DOMAIN chat /\ chat[h.msg].by # "bot" /\ h.msg # None /\ chat[h.msg].root = None
  BY DEF Refs, HandlerRefs, ChatRefs, Names, Types, None
<1>2. PICK m \in DOMAIN mail : mail[m].ext = h.msg
  BY <1>1 DEF Knew, Recorded
<1>3. mail[m].key = h.msg
  <2>1. mail[m].key = None => chat[h.msg].mail = m
    BY <1>1, <1>2 DEF Names
  <2>2. m # None
    BY DEF Types, None
  <2> QED
    BY <1>1, <1>2, <2>1, <2>2 DEF Names, Posts
<1>4. mail[m].to = h.to
  BY <1>1, <1>3 DEF Direct, AddsReceived
<1> QED
  BY <1>3, <1>4 DEF AddsReceived, IsMail

\* Nor is a mail called by a root that was known and that did not call it before.
LEMMA Reading ==
  ASSUME Types, Types', Refs, Posts, Names, Direct, Knew, Moves,
         NEW k \in DOMAIN chat, chat[k].knew, NEW m \in DOMAIN mail', mail'[m].ext = chat[k].root
  PROVE  m \in DOMAIN mail /\ mail[m].ext = chat[k].root
<1>1. chat[k].root # None
  BY DEF Knew
<1>2. CASE UNCHANGED mail
  BY <1>2
<1>3. CASE AddsPlain
  BY <1>1, <1>3 DEF AddsPlain, Grows
<1>4. ASSUME NEW h \in handlers, AddsReceived(h)
      PROVE  m \in DOMAIN mail /\ mail[m].ext = chat[k].root
  <2>1. chat[k].root # h.msg
    BY <1>4, Unseen
  <2> QED
    BY <1>4, <2>1 DEF AddsReceived, Grows
<1>5. CASE NotesPost
  <2>1. CASE m # job.row
    BY <1>5, <2>1 DEF NotesPost
  <2>2. CASE m = job.row
    <3>1. /\ chat[k].root = job.id /\ job.stage = "record" /\ m \in DOMAIN mail
          /\ chat[job.id].mail = m /\ m # None /\ job.id \in DOMAIN chat
      BY <1>5, <2>2 DEF NotesPost, Posts, Types, None
    <3>2. PICK n \in DOMAIN mail : mail[n].ext = job.id
      BY <3>1 DEF Knew, Recorded, Lost
    <3>3. mail[n].key = None
      BY <3>1, <3>2 DEF Names, Posts
    <3>4. n = m
      BY <1>1, <3>1, <3>2, <3>3 DEF Names
    <3> QED
      BY <3>1, <3>2, <3>4
  <2> QED
    BY <2>1, <2>2
<1> QED
  BY <1>2, <1>3, <1>4, <1>5 DEF Moves, MailMoves

\* A root that was known is lost only to a later post of the same mail.
LEMMA KnewStep ==
  ASSUME Types, Types', Refs, Posts, Names, OnePost, Knew, Moves
  PROVE  Knew'
<1> USE DEF Moves, Refs
<1>1. \A c \in DOMAIN chat : c \in DOMAIN chat' /\ chat'[c] = chat[c]
  BY DEF ChatKept
<1> DEFINE KnowsYet(c) == \E m \in DOMAIN mail' : mail'[m].ext = c
           LostYet(c)  == c \notin memory' /\ ~(job'.stage \in {"images", "record"} /\ job'.id = c)
<1>2. ASSUME NEW c \in DOMAIN chat, Recorded(c) PROVE KnowsYet(c) \/ (chat[c].by = "bot" /\ LostYet(c))
  <2>1. PICK m \in DOMAIN mail : mail[m].ext = c
    BY <1>2 DEF Recorded
  <2>2. CASE mail'[m].ext = c
    BY <2>1, <2>2 DEF MailKept
  <2>3. CASE mail'[m].ext # c
    <3>1. NotesPost /\ m = job.row
      BY <2>1, <2>3 DEF MailMoves, AddsPlain, AddsReceived, NotesPost, Grows
    <3>2. mail[m].key = None
      BY <3>1 DEF NotesPost, Posts, Names
    <3>3. chat[c].mail = m /\ m # None
      BY <1>2, <2>1, <3>2 DEF Names, Types, None
    <3>4. c # job.id /\ c \notin memory
      BY <2>3, <3>1, <3>3 DEF NotesPost, OnePost
    <3>5. job'.stage = "mark" /\ memory' = memory
      BY <3>1, JobMoves DEF NotesPost, Record, AtJob, Step, At, Types, Stage
    <3> QED
      BY <3>3, <3>4, <3>5 DEF Posts
  <2> QED
    BY <2>2, <2>3
<1>3. ASSUME NEW c \in DOMAIN chat, Lost(c) PROVE LostYet(c)
  <2>1. Len(chat) + 1 \notin DOMAIN chat
    BY DEF Types
  <2>2. c \notin memory'
    BY <1>3, <2>1 DEF Lost, MemoryMoves, AddsPost
  <2>3. ~(job'.stage \in {"images", "record"} /\ job'.id = c)
    <3>1. CASE UNCHANGED job \/ job'.stage = "idle" \/ Picked
      BY <1>3, <3>1 DEF Lost, Picked
    <3>2. ASSUME job.stage = "post", NEW id \in 1..Len(chat) + 1, Lands(id) PROVE id # c
      BY <1>3, <2>1, <3>2, LandsIs DEF Lost
    <3>3. CASE Moved
      BY <1>3, <3>2, <3>3 DEF Lost, Moved
    <3> QED
      BY <3>1, <3>3 DEF JobMove
  <2> QED
    BY <2>2, <2>3
<1>4. \A k \in DOMAIN chat : chat[k].root # None => chat[k].root \in DOMAIN chat
  BY Uphold
<1>5. ASSUME NEW k \in DOMAIN chat', chat'[k].knew
      PROVE  /\ chat'[k].root # None
             /\ KnowsYet(chat'[k].root) \/ (chat'[chat'[k].root].by = "bot" /\ LostYet(chat'[k].root))
  <2>1. CASE k \in DOMAIN chat
    <3>1. /\ chat[k].root # None
          /\ Recorded(chat[k].root) \/ (chat[chat[k].root].by = "bot" /\ Lost(chat[k].root))
      BY <1>1, <1>5, <2>1 DEF Knew
    <3>2. chat[k].root \in DOMAIN chat /\ chat'[k] = chat[k]
      BY <1>1, <1>4, <2>1, <3>1
    <3> QED
      BY <1>1, <1>2, <1>3, <3>1, <3>2
  <2>2. CASE k \notin DOMAIN chat
    <3>1. AddsWord
      BY <1>5, <2>2 DEF ChatMoves, AddsPost, ChatGrows
    <3>2. /\ chat'[k].root \in {None} \cup DOMAIN chat /\ Known(chat'[k].root) # {}
      BY <1>5, <2>2, <3>1 DEF AddsWord, ChatGrows
    <3>3. chat'[k].root # None /\ Recorded(chat'[k].root)
      BY <3>2 DEF Known, Recorded
    <3> QED
      BY <1>1, <1>2, <3>2, <3>3
  <2> QED
    BY <2>1, <2>2
<1> QED
  BY <1>5 DEF Knew, Recorded, Lost

\* What a handler has found is not overtaken by what others do.
LEMMA LookedStep ==
  ASSUME Types, Types', Refs, Posts, Names, Direct, OneMailPerReader, Knew, Looked, Moves
  PROVE  Looked'
<1> USE DEF Moves, Refs
<1>1. \A c \in DOMAIN chat : c \in DOMAIN chat' /\ chat'[c] = chat[c]
  BY DEF ChatKept
<1> SUFFICES ASSUME NEW h \in handlers', NEW m \in DOMAIN mail', h.stage = "insert",
                    chat'[h.msg].knew, chat'[h.msg].root = mail'[m].ext
             PROVE  h.parent = m /\ h.to = ThreadRecipient(m)'
  BY DEF Looked
<1>2. h \in handlers \/ Found(h)
  BY DEF HandlersMove, Pushed
<1>3. h.msg \in DOMAIN chat /\ chat'[h.msg] = chat[h.msg]
  BY <1>1, <1>2 DEF HandlerRefs, Found
<1>4. m \in DOMAIN mail /\ mail[m].ext = chat[h.msg].root
  BY <1>3, Reading
<1>5. ThreadRecipient(m)' = ThreadRecipient(m)
  BY <1>4 DEF ThreadRecipient, MailKept
<1>6. CASE h \in handlers
  BY <1>3, <1>4, <1>5, <1>6 DEF Looked
<1>7. CASE Found(h)
  <2>1. chat[h.msg].root # None /\ m \in Known(chat[h.msg].root)
    BY <1>3, <1>4 DEF Knew, Known
  <2>2. h.parent \in Known(chat[h.msg].root) /\ h.to = Resolve(h.parent, chat[h.msg].at)
    BY <1>7, <2>1 DEF Found
  <2>3. chat[chat[h.msg].root].root = None
    BY <1>3, <2>1 DEF ChatRefs
  <2>4. h.parent = m
    BY <2>1, <2>2, <2>3, Unique DEF Known
  <2>5. m # None
    BY <1>4 DEF Types, None
  <2> QED
    BY <1>5, <2>2, <2>4, <2>5 DEF Resolve
<1> QED
  BY <1>2, <1>6, <1>7

\* Mail and messages enter the thread they belong to, and stay there.
LEMMA ThreadsStep ==
  ASSUME Types, Types', Refs, Posts, Names, Direct, Targets, Knew, Looked, Threads, Moves
  PROVE  Threads'
<1> USE DEF Moves, Refs
<1>1. \A c \in DOMAIN chat : c \in DOMAIN chat' /\ chat'[c] = chat[c]
  BY DEF ChatKept
<1>2. ReplyFindsItsAgent'
  <2> SUFFICES ASSUME NEW x \in DOMAIN mail', NEW m \in DOMAIN mail', mail'[x].key # None,
                      chat'[mail'[x].key].knew, chat'[mail'[x].key].root = mail'[m].ext
               PROVE  /\ mail'[x].parent = m
                      /\ mail'[x].to = IF IsOwners(m)' THEN mail'[m].from ELSE mail'[m].to
    BY DEF ReplyFindsItsAgent
  <2>1. \/ x \in DOMAIN mail
        \/ \E h \in handlers : /\ h.stage = "insert" /\ mail'[x].key = h.msg
                               /\ mail'[x].parent = h.parent /\ mail'[x].to = h.to
    BY DEF MailMoves, AddsPlain, AddsReceived, NotesPost, Grows
  <2>2. mail'[x].key \in DOMAIN chat
    BY <2>1 DEF MailKept, MailRefs, HandlerRefs
  <2>3. m \in DOMAIN mail /\ mail[m].ext = chat[mail'[x].key].root
    BY <1>1, <2>2, Reading
  <2>4. mail'[m].to = mail[m].to /\ mail'[m].from = mail[m].from
    BY <2>3 DEF MailKept
  <2>5. CASE x \in DOMAIN mail
    BY <1>1, <2>2, <2>3, <2>4, <2>5 DEF Threads, ReplyFindsItsAgent, MailKept, IsOwners
  <2>6. CASE x \notin DOMAIN mail
    BY <1>1, <2>1, <2>2, <2>3, <2>4, <2>6 DEF Looked, ThreadRecipient, IsOwners
  <2> QED
    BY <2>5, <2>6
<1>3. AnswerIsInItsThread'
  <2> SUFFICES ASSUME NEW c \in DOMAIN chat', NEW m, m = chat'[c].mail, m # None,
                      NEW p, p = mail'[m].parent, p # None, NEW k, k = mail'[p].key, k # None
               PROVE  chat'[c].root = IF chat'[k].root = None THEN k ELSE chat'[k].root
    BY DEF AnswerIsInItsThread, RootOf
  <2>1. CASE c \in DOMAIN chat
    <3>1. chat'[c] = chat[c] /\ m \in DOMAIN mail
      BY <1>1, <2>1 DEF ChatRefs
    <3>2. p = mail[m].parent /\ p \in DOMAIN mail
      BY <3>1, Uphold DEF MailKept
    <3>3. k = mail[p].key /\ k \in DOMAIN chat
      BY <3>2 DEF MailKept, MailRefs
    <3>4. chat[c].root = RootOf(k)
      BY <2>1, <3>1, <3>2, <3>3 DEF Threads, AnswerIsInItsThread
    <3> QED
      BY <1>1, <3>1, <3>3, <3>4 DEF RootOf
  <2>2. CASE c \notin DOMAIN chat
    <3>1. AddsPost /\ m = job.row /\ chat'[c].root = RootOf(job.target)
      BY <2>2 DEF ChatMoves, AddsPost, AddsWord, ChatGrows
    <3>2. job.stage = "post" /\ job.kind = "publish" /\ UNCHANGED mail /\ m \in DOMAIN mail
      BY <3>1 DEF AddsPost, PublishOwnerMail, PostFails, AtJob, JobRefs
    <3>3. p = mail[m].parent /\ p \in DOMAIN mail /\ k = mail[p].key
      BY <3>2, Uphold
    <3>4. job.target = k /\ k \in DOMAIN chat
      BY <3>1, <3>2, <3>3 DEF Targets, Right, MailRefs
    <3> QED
      BY <1>1, <3>1, <3>2, <3>4 DEF RootOf
  <2> QED
    BY <2>1, <2>2
<1> QED
  BY <1>2, <1>3 DEF Threads


-----------------------------------------------------------------------------
(* The queue, and the invariant as a whole. *)

\* A full queue drops its oldest.
LEMMA RoomStep ==
  ASSUME Types, Room, [Next]_vars
  PROVE  Room'
<1>1. QueueMax \in Nat \ {0}
  BY OwnerChannelAssumption
<1>2. \A S \in SUBSET OwnersMail : S \in SUBSET Nat /\ IsFiniteSet(S) /\ Cardinality(S) \in Nat
  BY RowsFinite DEF Types, OwnersMail
<1>3. queue \in SUBSET OwnersMail /\ IsFiniteSet(queue)
  BY <1>2 DEF Types
<1>4. CASE queue' \in SUBSET queue
  <2>1. Cardinality(queue') <= Cardinality(queue)
    BY <1>3, <1>4, FS_Subset
  <2>2. queue' \in SUBSET OwnersMail
    BY <1>3, <1>4
  <2>3. Cardinality(queue') \in Nat /\ Cardinality(queue) \in Nat
    BY <1>2, <1>3, <2>2
  <2> QED
    BY <1>1, <2>1, <2>3 DEF Room
<1>5. CASE \E new \in SUBSET OwnersMail : queue' = Published(queue, new)
  <2>1. PICK new \in SUBSET OwnersMail : queue' = Published(queue, new)
    BY <1>5
  <2>2. (queue \cup new) \in SUBSET OwnersMail
    BY <1>3, <2>1
  <2>3. (queue \cup new) \in SUBSET Nat /\ IsFiniteSet(queue \cup new)
    BY <1>2, <2>2
  <2>4. Cardinality({m \in queue \cup new : Cardinality({k \in queue \cup new : k > m}) < QueueMax}) <= QueueMax
    BY <1>1, <2>3, Newest
  <2> QED
    BY <2>1, <2>4 DEF Published, Room
<1>6. CASE Poll
  BY <1>4, <1>5, <1>6 DEF Poll
<1>7. CASE Boot \/ Crash \/ Take
  BY <1>4, <1>7 DEF Boot, Crash, Take
<1>8. CASE UNCHANGED queue
  BY <1>4, <1>8
<1> QED
  BY <1>6, <1>7, <1>8
  DEF Next, vars, store, volatile, counts, AgentWrites, DashboardSend, Mirror, Sweep, Subscribe, Enqueue,
     Publish, PublishOwnerMail, PostFails, PostImages, Record, AtJob,
     PublishReaction, MarkDispatched, Pick, Inbound, Lookup, DownloadRaises, InsertMessage, InHandler,
     Prune, Forget, React, Say, Deliver

\* The invariant holds when the system is new.
LEMMA IInvInit == Init => IInv
<1> SUFFICES ASSUME Init PROVE IInv
  OBVIOUS
<1>1. Types
  BY JobRests DEF Init, Types, OwnersMail
<1>2. Room
  BY FS_EmptySet, OwnerChannelAssumption DEF Init, Room
<1>3. Refs /\ Tries /\ Posts /\ Names /\ Direct /\ HandlersOf /\ Targets /\ OnePost /\ Knew /\ Looked
  BY JobRests DEF Init, Refs, MailRefs, ChatRefs, RowRefs, JobRefs, HandlerRefs, Tries, Posts, Names,
     Direct, HandlersOf, Targets, OnePost, Knew, Looked
<1>4. KnownOnce /\ Remembers /\ OneMailPerReader /\ Threads
  BY DEF Init, KnownOnce, Remembers, OneMailPerReader, Threads, ReplyFindsItsAgent, AnswerIsInItsThread
<1> QED
  BY <1>1, <1>2, <1>3, <1>4 DEF IInv

\* Every step keeps the invariant, by the lemmas for its parts.
LEMMA IInvStep == IInv /\ [Next]_vars => IInv'
<1> SUFFICES ASSUME IInv, [Next]_vars PROVE IInv'
  OBVIOUS
<1>1. Types' /\ Moves
  BY TypesStep, StepMoves DEF IInv
<1>2. Room' /\ Refs' /\ Tries'
  BY <1>1, RoomStep, RefsStep, TriesStep DEF IInv
<1>3. Posts' /\ HandlersOf' /\ Names' /\ Direct' /\ Targets'
  BY <1>1, PostsStep, HandlersOfStep, NamesStep, DirectStep, TargetsStep DEF IInv
<1>4. OneMailPerReader' /\ KnownOnce' /\ OnePost'
  BY <1>1, OneMailStep, OnePostStep DEF IInv
<1>5. Knew' /\ Looked' /\ Threads'
  BY <1>1, KnewStep, LookedStep, ThreadsStep DEF IInv
<1>6. Remembers'
  BY <1>1, RemembersStep DEF IInv
<1> QED
  BY <1>1, <1>2, <1>3, <1>4, <1>5, <1>6 DEF IInv

\* The invariant holds throughout.
LEMMA IInvHolds == Spec => []IInv
BY IInvInit, IInvStep, PTL DEF Spec

\* Every reference of the tables, of the queue and of the handlers is to a row that is
\* there, a refused post is tried once more, and the subscription of the enqueuer never
\* holds more than queue_max.
THEOREM TypesHold == Spec => []TypeOK
<1>1. IInv => TypeOK
  <2> SUFFICES ASSUME IInv PROVE TypeOK
    OBVIOUS
  <2>1. \A m \in DOMAIN mail : mail[m].to \in Agents \cup {Owner}
    BY Columns DEF IInv, Types, Person
  <2>2. job.stage \in Stage /\ \A h \in handlers : h.stage \in {"lookup", "insert"}
    BY Columns DEF IInv, Types
  <2>3. seen <= Len(mail)
    BY DEF IInv, Types
  <2> QED
    BY <2>1, <2>2, <2>3
    DEF IInv, Types, Room, Refs, MailRefs, ChatRefs, RowRefs, Tries, TypeOK, Stage
<1> QED
  BY <1>1, IInvHolds, PTL

\* However crashes, retries, sweeps and redeliveries interleave: a mail is posted a
\* second time only after a retry that came later than the channel's memory of the
\* token or after maintenance deleted its row (maintenance.py 41-48, catch_up), never
\* while the channel knows the first post; one message makes one mail per reader.
THEOREM NothingIsTwice == Spec => []NothingTwice
<1>1. IInv => NothingTwice
  <2> SUFFICES ASSUME IInv PROVE NothingTwice
    OBVIOUS
  <2>1. ASSUME NEW m \in OwnersMail, NEW c \in PostsOf(m), NEW d \in PostsOf(m), c # d
        PROVE  {"forget", "prune"} \cap faults # {} /\ ~({c, d} \subseteq memory)
    <3>1. /\ c \in DOMAIN chat /\ d \in DOMAIN chat /\ chat[c].mail = m /\ chat[d].mail = m
          /\ m \in DOMAIN mail /\ DOMAIN mail = 1..Len(mail) /\ Len(mail) \in Nat
      BY DEF PostsOf, OwnersMail, IInv, Types
    <3>2. chat[c].mail # None
      BY <3>1 DEF None
    <3>3. ~({c, d} \subseteq memory)
      BY <2>1, <3>1, <3>2 DEF IInv, KnownOnce
    <3>4. chat[c].by = "bot" /\ chat[d].by = "bot"
      BY <3>1, <3>2 DEF IInv, Posts
    <3> QED
      BY <3>1, <3>3, <3>4 DEF IInv, Remembers
  <2> QED
    BY <2>1 DEF IInv, NothingTwice, NoDoublePost
<1> QED
  BY <1>1, IInvHolds, PTL

\* What the owner writes in the thread of a mail goes to the agent of that mail, as an
\* answer to it; what an agent answers to a message is posted in the thread of the message.
THEOREM ThreadsHold == Spec => []Threads
<1>1. IInv => Threads
  BY DEF IInv
<1> QED
  BY <1>1, IInvHolds, PTL

=============================================================================
